---- MODULE Spec2Model ----
(***************************************************************************)
(* Screen recorder extension: the recording session manager                *)
(* (RecordingManager), the message surface of the background service       *)
(* worker (ServiceWorker) and the persistence layer (ProjectManager,       *)
(* StorageManager) over chrome.storage.local.                              *)
(*                                                                         *)
(* Time is counted in seconds (the code reads Date.now() in milliseconds); *)
(* every time constant of the code is scaled accordingly.  Strings that    *)
(* the code builds, matches or rewrites (session ids, project ids, storage *)
(* keys) are sequences of one-character strings, so that includes(),       *)
(* startsWith() and replace() are computed as JavaScript computes them.    *)
(***************************************************************************)
EXTENDS Integers, Sequences, FiniteSets, TLC

\* ------------------------------------------------------------------ bounds
MaxSessions == 2
MaxTabs == 2
MaxBlobs == 2
MaxPendingStops == 1
MaxSmallTicks == 1
MaxBigJumps == 1
MaxCleanups == 1
MaxEvents == 2
MaxChunks == 3
MaxRecordings == 1
MaxDeadlines == 1
MaxImportBlobs == 3
MaxSaved == 101
MaxEarlySaves == 3
MaxListed == 22
MaxTouched == 2
MaxSizedProjects == 3
MaxCalls == 2
MaxRacingStarts == 2
MaxAsyncProjects == 2
MaxListedRecordings == 11
MaxBinds == 4

SessionIds == 1..MaxSessions
Tabs == 1..MaxTabs

\* ----------------------------------------------------------------- strings
Digit == <<"0", "1", "2", "3", "4", "5", "6", "7", "8", "9">>

RECURSIVE ToStr(_)
ToStr(n) ==
  IF n < 10 THEN <<Digit[n + 1]>>
  ELSE ToStr(n \div 10) \o <<Digit[(n % 10) + 1]>>

Includes(s, sub) ==
  \E i \in 0..(Len(s) - Len(sub)) : SubSeq(s, i + 1, i + Len(sub)) = sub

StartsWith(s, p) ==
  Len(s) >= Len(p) /\ SubSeq(s, 1, Len(p)) = p

IndexOf(s, sub) ==
  IF Includes(s, sub)
  THEN CHOOSE i \in 0..(Len(s) - Len(sub)) :
         /\ SubSeq(s, i + 1, i + Len(sub)) = sub
         /\ \A j \in 0..(i - 1) : SubSeq(s, j + 1, j + Len(sub)) # sub
  ELSE 0 - 1

\* String.prototype.replace with a string pattern: the first occurrence only.
Replace(s, old, new) ==
  IF ~Includes(s, old) THEN s
  ELSE LET i == IndexOf(s, old)
       IN SubSeq(s, 1, i) \o new \o SubSeq(s, i + Len(old) + 1, Len(s))

US == <<"_">>
SESSION_ == <<"s", "e", "s", "s", "i", "o", "n", "_">>
PROJECT_ == <<"p", "r", "o", "j", "e", "c", "t", "_">>
BLOB_ == <<"b", "l", "o", "b", "_">>
TEMP_ == <<"t", "e", "m", "p", "_">>
CACHE_ == <<"c", "a", "c", "h", "e", "_">>
RECENT_PROJECTS ==
  <<"r", "e", "c", "e", "n", "t", "_", "p", "r", "o", "j", "e", "c", "t", "s">>
CLEANUP_STATS ==
  <<"c", "l", "e", "a", "n", "u", "p", "_", "s", "t", "a", "t", "s">>
LAST_MAINTENANCE ==
  <<"l", "a", "s", "t", "M", "a", "i", "n", "t", "e", "n", "a", "n", "c", "e">>

RECORDING_ == <<"r", "e", "c", "o", "r", "d", "i", "n", "g", "_">>
RECORDINGS_LIST ==
  <<"r", "e", "c", "o", "r", "d", "i", "n", "g", "s", "_", "l", "i", "s", "t">>
RecordingsLimit == 10

\* An optional value: undefined is the empty sequence.
Undef == <<>>
Some(v) == <<v>>
\* x || 0
OrZero(x) == IF x = Undef THEN 0 ELSE x[1]
\* a || b on numbers
Or(a, b) == IF a # 0 THEN a ELSE b

\* --------------------------------------------------------- program constants
\* 30 days; the code's value is this many milliseconds times 1000.
MaxProjectAge == 30 * 24 * 60 * 60
MaxBlobAge == 30 * 24 * 60 * 60
MaxStorageUsage == 80
MaxProjects == 100
GetAllLimit == 50
RecentLimit == 20
QuotaBytes == 10 * 1024 * 1024

\* Sizes of what the environment hands in: one base64 video blob record and
\* one project record.  Bookkeeping records are counted as empty.
BlobBytes == 4 * 1024 * 1024
ProjectBytes == 512 * 1024

VARIABLES
  now,             \* Date.now()
  recordingId,     \* RecordingManager.recordingId
  sessions,        \* the session objects, by the counter value in their id
  activeSessions,  \* RecordingManager.activeSessions (the keys registered)
  stopPending,     \* per session: stopRecording calls awaiting STOP_MEDIA_RECORDER
  storage,         \* chrome.storage.local
  cleanup,         \* per tab: the run of RecordingManager.cleanupTab, if any
  recorder,        \* the CursorFlowRecorder object and the chunks sent to it
  calls,           \* ProjectManager calls that have read and not yet written
  tracker          \* the content script's CursorTracker and its DOM listeners

vars ==
  <<now, recordingId, sessions, activeSessions, stopPending, storage, cleanup,
    recorder, calls, tracker>>

\* ------------------------------------------------------ chrome.storage.local
RecordBytes(v) ==
  CASE v.kind = "blob" -> v.size
    [] v.kind = "project" -> IF "bytes" \in DOMAIN v THEN v.bytes ELSE ProjectBytes
    [] OTHER -> 0

RECURSIVE SumBytes(_, _)
SumBytes(st, keys) ==
  IF keys = {} THEN 0
  ELSE LET k == CHOOSE x \in keys : TRUE
       IN RecordBytes(st[k]) + SumBytes(st, keys \ {k})

\* chrome.storage.local.getBytesInUse(null)
BytesInUse(st) == SumBytes(st, DOMAIN st)

Put(st, key, val) ==
  [k \in (DOMAIN st) \cup {key} |-> IF k = key THEN val ELSE st[k]]

\* chrome.storage.local.set of one key: refused (runtime.lastError) when the
\* store would exceed its quota, and then nothing is written.
StorageSet(st, key, val) ==
  LET next == Put(st, key, val)
  IN IF BytesInUse(next) <= QuotaBytes
     THEN [ok |-> TRUE, st |-> next]
     ELSE [ok |-> FALSE, st |-> st]

\* chrome.storage.local.remove
StorageRemove(st, keys) == [k \in (DOMAIN st) \ keys |-> st[k]]

\* getStorageUsage().percentage: Math.round((used / quota) * 100)
UsagePercentage(st) ==
  ((2 * 100 * BytesInUse(st)) + QuotaBytes) \div (2 * QuotaBytes)

ProjectKeys(st) == {k \in DOMAIN st : StartsWith(k, PROJECT_)}
BlobKeys(st) == {k \in DOMAIN st : StartsWith(k, BLOB_)}

\* --------------------------------------------------------- ProjectManager
RecentList(st) ==
  IF RECENT_PROJECTS \in DOMAIN st THEN st[RECENT_PROJECTS].items ELSE <<>>

\* Mutant: updateRecentProjects does not cut the list.
updateRecentProjects_NoLimit(st, project) ==
  LET kept == SelectSeq(RecentList(st), LAMBDA p : p.id # project.id)
      entry == [id |-> project.id, createdAt |-> project.createdAt,
                updatedAt |-> project.updatedAt, duration |-> project.duration]
  IN Put(st, RECENT_PROJECTS, [kind |-> "list", items |-> <<entry>> \o kept])

updateRecentProjects(st, project) ==
  LET kept == SelectSeq(RecentList(st), LAMBDA p : p.id # project.id)
      entry == [id |-> project.id, createdAt |-> project.createdAt,
                updatedAt |-> project.updatedAt, duration |-> project.duration]
      list == <<entry>> \o kept
      cut == SubSeq(list, 1, IF Len(list) < RecentLimit THEN Len(list) ELSE RecentLimit)
  IN Put(st, RECENT_PROJECTS, [kind |-> "list", items |-> cut])

removeFromRecentProjects(st, projectId) ==
  LET kept == SelectSeq(RecentList(st), LAMBDA p : p.id # projectId)
  IN Put(st, RECENT_PROJECTS, [kind |-> "list", items |-> kept])

deleteProjectBlobs(st, projectId) ==
  StorageRemove(st, {k \in DOMAIN st : StartsWith(k, BLOB_) /\ Includes(k, projectId)})

deleteProject(st, projectId) ==
  LET s1 == StorageRemove(st, {PROJECT_ \o projectId})
      s2 == deleteProjectBlobs(s1, projectId)
  IN removeFromRecentProjects(s2, projectId)

\* The projects of a set in ascending updatedAt order; the order of projects
\* with equal updatedAt is the order the store enumerates them in.
RECURSIVE SortAsc(_)
SortAsc(ps) ==
  IF ps = {} THEN <<>>
  ELSE LET p == CHOOSE x \in ps : \A y \in ps : x.updatedAt <= y.updatedAt
       IN <<p>> \o SortAsc(ps \ {p})

\* getAllProjects({sortBy: 'updatedAt', sortOrder: 'asc'}) with limit = 50
getAllProjects(st) ==
  LET all == SortAsc({st[k] : k \in ProjectKeys(st)})
  IN SubSeq(all, 1, IF Len(all) < GetAllLimit THEN Len(all) ELSE GetAllLimit)

RECURSIVE DeleteAll(_, _)
DeleteAll(st, ps) ==
  IF ps = <<>> THEN st
  ELSE DeleteAll(deleteProject(st, Head(ps).id), Tail(ps))

cleanupOldProjects(st) ==
  LET projects == getAllProjects(st)
      oldProjects == SelectSeq(projects,
                       LAMBDA p : (now - Or(p.updatedAt, p.createdAt)) > MaxProjectAge)
      excessProjects == SubSeq(projects, MaxProjects + 1, Len(projects))
  IN DeleteAll(st, oldProjects \o excessProjects)

\* saveProject: the project record, then the recent list, then the cleanup.
saveProject(st, project) ==
  LET r == StorageSet(st, PROJECT_ \o project.id,
                      [project EXCEPT !.savedAt = Some(now)])
  IN IF ~r.ok THEN [ok |-> FALSE, st |-> st]
     ELSE [ok |-> TRUE,
           st |-> cleanupOldProjects(updateRecentProjects(r.st, project))]

\* Mutant: saveProject updates the recent list before it stores the project.
saveProjectWrites_IndexFirst(st, project) ==
  LET s1 == updateRecentProjects(st, project)
      r == StorageSet(s1, PROJECT_ \o project.id,
                      [project EXCEPT !.savedAt = Some(now)])
  IN IF ~r.ok THEN <<s1>>
     ELSE <<s1, r.st, cleanupOldProjects(r.st)>>

\* The stores after each step of saveProject: the project record, the recent
\* list, the cleanup; none when the project record is refused.
saveProjectWrites(st, project) ==
  LET r == StorageSet(st, PROJECT_ \o project.id,
                      [project EXCEPT !.savedAt = Some(now)])
      s2 == updateRecentProjects(r.st, project)
  IN IF ~r.ok THEN <<>>
     ELSE <<r.st, s2, cleanupOldProjects(s2)>>

\* --------------------------------------------------------- StorageManager
getProjectIdsFromData(st) == {st[k].id : k \in ProjectKeys(st)}

Ceil2(n) == (n + 1) \div 2

\* The blobs cleanupStorage classifies: not referenced by any project id.
OrphanedBlobs(st) ==
  {k \in BlobKeys(st) :
     ~\E pid \in getProjectIdsFromData(st) : Includes(Replace(k, BLOB_, <<>>), pid)}

\* Referenced blobs older than 30 days.
OldBlobs(st) ==
  {k \in BlobKeys(st) \ OrphanedBlobs(st) : (now - st[k].createdAt) > MaxBlobAge}

TotalCleanups(st) ==
  IF CLEANUP_STATS \in DOMAIN st THEN st[CLEANUP_STATS].totalCleanups ELSE 0

TotalItemsFreed(st) ==
  IF CLEANUP_STATS \in DOMAIN st THEN st[CLEANUP_STATS].totalItemsFreed ELSE 0

updateCleanupStats(st, itemsFreed) ==
  Put(st, CLEANUP_STATS,
      [kind |-> "stats", totalCleanups |-> TotalCleanups(st) + 1,
       totalItemsFreed |-> TotalItemsFreed(st) + itemsFreed, lastCleanup |-> now])

\* cleanupStorage; oldPick is the first half of oldBlobs in the order the store
\* enumerates its keys, which the storage API leaves open.
cleanupStorage(st, oldPick) ==
  LET tempKeys == {k \in DOMAIN st : StartsWith(k, TEMP_) \/ StartsWith(k, CACHE_)}
      s1 == StorageRemove(st, tempKeys)
      orphanedBlobs == OrphanedBlobs(st)
      s2 == StorageRemove(s1, orphanedBlobs)
      over == UsagePercentage(s2) > MaxStorageUsage
      s3 == IF over THEN StorageRemove(s2, oldPick) ELSE s2
      freed == Cardinality(tempKeys) + Cardinality(orphanedBlobs)
                 + (IF over THEN Cardinality(oldPick) ELSE 0)
  IN updateCleanupStats(s3, freed)

OldPicks(st) ==
  {S \in SUBSET OldBlobs(st) : Cardinality(S) = Ceil2(Cardinality(OldBlobs(st)))}

performMaintenance(st, oldPick) ==
  LET s1 == IF UsagePercentage(st) > MaxStorageUsage
            THEN cleanupStorage(st, oldPick) ELSE st
  IN Put(s1, LAST_MAINTENANCE, [kind |-> "time", at |-> now])

\* -------------------------------------------------------- RecordingManager
\* initReply is the callback of the session's INIT_MEDIA_RECORDER message:
\* "awaited" until Chrome invokes it, then "handled" if it settled the promise
\* of initializeMediaRecorder and "late" if the 15 s timer had settled it.
\* trackReply is the answer to the session's START_CURSOR_TRACKING message:
\* "awaited" once the message is sent, then "ok" or "error".
NoSession ==
  [id |-> <<>>, tabId |-> 0, startTime |-> 0, state |-> "none",
   startCall |-> "none", initReply |-> "none", trackReply |-> "none",
   pauseTime |-> Undef,
   totalPauseDuration |-> Undef, endTime |-> Undef, videoBlobs |-> <<>>,
   cursorEvents |-> <<>>]

\* `session_${++this.recordingId}_${Date.now()}`
SessionId(n, t) == SESSION_ \o ToStr(n) \o US \o ToStr(t)

\* `${session.id}_${index}`
BlobId(session, index) == session.id \o US \o ToStr(index)

NewSession(n, tab) ==
  [NoSession EXCEPT !.id = SessionId(n, now), !.tabId = tab, !.startTime = now,
                    !.state = "starting", !.startCall = "pending",
                    !.initReply = "awaited"]

Duration(session) == session.endTime[1] - session.startTime

ProjectOf(session) ==
  [kind |-> "project",
   id |-> PROJECT_ \o session.id,
   createdAt |-> session.startTime,
   updatedAt |-> now,
   duration |-> Duration(session),
   timeline |->
     [duration |-> Duration(session),
      cursorEvents |-> session.cursorEvents,
      videoSegments |->
        [i \in 1..Len(session.videoBlobs) |->
           [blobId |-> BlobId(session, i - 1), size |-> session.videoBlobs[i]]]],
   savedAt |-> Undef]

\* storeBlobData for the blobs from index i on; stops at the first refusal.
RECURSIVE StoreBlobs(_, _, _)
StoreBlobs(st, session, i) ==
  IF i > Len(session.videoBlobs) THEN [ok |-> TRUE, st |-> st]
  ELSE LET r == StorageSet(st, BLOB_ \o BlobId(session, i - 1),
                           [kind |-> "blob", size |-> session.videoBlobs[i],
                            createdAt |-> now])
       IN IF r.ok THEN StoreBlobs(r.st, session, i + 1) ELSE r

generateProjectData(st, session) ==
  LET r == StoreBlobs(st, session, 1)
  IN [ok |-> r.ok, st |-> r.st, project |-> ProjectOf(session)]

\* ------------------------------------------------------------------ state
\* No cleanupTab has run for the tab: the tab is open.
NoCleanup == [status |-> "open", queue |-> <<>>, awaiting |-> FALSE]

\* CursorFlowRecorder after its constructor, the startRecording calls that
\* wait for the capture (starting) and the stopRecording call in its wait
\* (stopping), and the MediaRecorders of the page: started counts them, live
\* holds the running ones, captured[k] is the number of chunks that the k-th
\* has produced, and inFlight are the RECORD_CHUNK messages under way.
NoRecorder ==
  [isRecording |-> FALSE, currentSession |-> Undef, recordedChunks |-> <<>>,
   starting |-> 0, stopping |-> FALSE, started |-> 0, live |-> {},
   captured |-> <<>>, inFlight |-> {}]

\* CursorTracker after its constructor, and the page it lives in: listeners
\* are the functions registered on the document for one kind of input event
\* (a function is named by the number of the bind call that made it), bound
\* counts the bind calls, and sent the CURSOR_EVENT messages that the latest
\* input event produced.
NoTracker ==
  [isTracking |-> FALSE, sessionId |-> Undef, listeners |-> {}, bound |-> 0,
   sent |-> 0, lastEventTime |-> 0]

Init ==
  /\ now = 1
  /\ recordingId = 0
  /\ sessions = [s \in SessionIds |-> NoSession]
  /\ activeSessions = {}
  /\ stopPending = [s \in SessionIds |-> 0]
  /\ storage = <<>>
  /\ cleanup = [tab \in Tabs |-> NoCleanup]
  /\ recorder = NoRecorder
  /\ calls = {}
  /\ tracker = NoTracker

BigStep == MaxProjectAge + 1

\* The clock advances by a second.
Tick ==
  /\ (now % BigStep) <= MaxSmallTicks
  /\ now' = now + 1
  /\ UNCHANGED <<recordingId, sessions, activeSessions, stopPending, storage>>
  /\ UNCHANGED <<cleanup, recorder, calls, tracker>>

\* The clock advances by more than the 30 day retention age.
TickMonth ==
  /\ (now \div BigStep) < MaxBigJumps
  /\ now' = now + BigStep
  /\ UNCHANGED <<recordingId, sessions, activeSessions, stopPending, storage>>
  /\ UNCHANGED <<cleanup, recorder, calls, tracker>>

\* ServiceWorker.startRecording when chooseDesktopMedia yields no stream id:
\* RecordingManager.startRecording is never called, and nothing changes.
StartDeclined(tab) ==
  /\ tab \in Tabs
  /\ UNCHANGED vars

\* ServiceWorker.startRecording with a stream id, up to the wait for the answer
\* to INIT_MEDIA_RECORDER: the session is created and registered.
StartRecording(tab) ==
  /\ recordingId < MaxSessions
  /\ recordingId' = recordingId + 1
  /\ sessions' = [sessions EXCEPT ![recordingId'] = NewSession(recordingId', tab)]
  /\ activeSessions' = activeSessions \cup {recordingId'}
  /\ UNCHANGED <<now, stopPending, storage>>
  /\ UNCHANGED <<cleanup, recorder, calls, tracker>>

\* startRecording resumes: the content script acknowledged ("ok"), refused
\* ("error") or the 15 s timer fired first ("timeout").
InitOutcomes == {"ok", "error", "timeout"}

\* Mutant: the catch block of startRecording does not unregister the session.
InitAnswered_NoRollback(s, outcome) ==
  /\ sessions[s].startCall = "pending"
  /\ sessions' = [sessions EXCEPT
                    ![s].state = IF outcome = "ok" THEN "recording" ELSE @,
                    ![s].startCall = IF outcome = "ok" THEN "resolved" ELSE "rejected",
                    ![s].initReply = IF outcome = "timeout" THEN @ ELSE "handled",
                    ![s].trackReply = IF outcome = "ok" THEN "awaited" ELSE @]
  /\ UNCHANGED <<now, recordingId, activeSessions, stopPending, storage>>
  /\ UNCHANGED <<cleanup, recorder, calls, tracker>>

InitAnswered(s, outcome) ==
  /\ sessions[s].startCall = "pending"
  /\ IF outcome = "ok"
     THEN /\ sessions' = [sessions EXCEPT ![s].state = "recording",
                                          ![s].startCall = "resolved",
                                          ![s].initReply = "handled",
                                          ![s].trackReply = "awaited"]
          /\ UNCHANGED activeSessions
     ELSE /\ sessions' = [sessions EXCEPT
                            ![s].startCall = "rejected",
                            ![s].initReply =
                               IF outcome = "timeout" THEN @ ELSE "handled"]
          /\ activeSessions' = activeSessions \ {s}
  /\ UNCHANGED <<now, recordingId, stopPending, storage>>
  /\ UNCHANGED <<cleanup, recorder, calls, tracker>>

\* The content script answers START_CURSOR_TRACKING with success or with a
\* failure ('Already tracking'): startCursorTracking gave sendMessage no
\* callback and returned at once, so the answer reaches no code.
TrackingAnswered(s, outcome) ==
  /\ sessions[s].trackReply = "awaited"
  /\ sessions' = [sessions EXCEPT ![s].trackReply = outcome]
  /\ UNCHANGED <<now, recordingId, activeSessions, stopPending, storage>>
  /\ UNCHANGED <<cleanup, recorder, calls, tracker>>

\* The timer of initializeMediaRecorder: setTimeout(..., 15000), in seconds.
InitTimeout == 15

\* The timer can have fired for the session: 15 s have passed since
\* initializeMediaRecorder was called, which is when the session was created.
DeadlinePassed(s) == (now - sessions[s].startTime) >= InitTimeout

\* The clock advances by the length of the timer.
TickDeadline ==
  /\ now <= MaxDeadlines * InitTimeout
  /\ now' = now + InitTimeout
  /\ UNCHANGED <<recordingId, sessions, activeSessions, stopPending, storage>>
  /\ UNCHANGED <<cleanup, recorder, calls, tracker>>

\* Mutant: a late acknowledgement completes the start.
LateInitReply_Completes(s, outcome) ==
  /\ sessions[s].initReply = "awaited"
  /\ sessions[s].startCall # "pending"
  /\ sessions' = [sessions EXCEPT
                    ![s].initReply = "late",
                    ![s].state = IF outcome = "ok" THEN "recording" ELSE @]
  /\ activeSessions' =
       IF outcome = "ok" THEN activeSessions \cup {s} ELSE activeSessions
  /\ UNCHANGED <<now, recordingId, stopPending, storage>>
  /\ UNCHANGED <<cleanup, recorder, calls, tracker>>

\* The callback of INIT_MEDIA_RECORDER runs after the timer rejected the
\* promise: clearTimeout of a timer that has fired, and resolve or reject of
\* a promise that is settled, none of which has an effect.
LateInitReply(s, outcome) ==
  /\ sessions[s].initReply = "awaited"
  /\ sessions[s].startCall # "pending"
  /\ sessions' = [sessions EXCEPT ![s].initReply = "late"]
  /\ UNCHANGED <<now, recordingId, activeSessions, stopPending, storage>>
  /\ UNCHANGED <<cleanup, recorder, calls, tracker>>

\* Mutant: the state check of pauseRecording is dropped.
PauseAccepted_AnyState(s) == s \in activeSessions

\* pauseRecording returns {success: true} exactly when this holds, and throws
\* otherwise.
PauseAccepted(s) == s \in activeSessions /\ sessions[s].state = "recording"

\* Mutant: pauseRecording records the pause time but not the new state.
PauseRecording_KeepsState(s) ==
  /\ IF PauseAccepted(s)
     THEN sessions' = [sessions EXCEPT ![s].pauseTime = Some(now)]
     ELSE UNCHANGED sessions
  /\ UNCHANGED <<now, recordingId, activeSessions, stopPending, storage>>
  /\ UNCHANGED <<cleanup, recorder, calls, tracker>>

PauseRecording(s) ==
  /\ IF PauseAccepted(s)
     THEN sessions' = [sessions EXCEPT ![s].state = "paused",
                                       ![s].pauseTime = Some(now)]
     ELSE UNCHANGED sessions
  /\ UNCHANGED <<now, recordingId, activeSessions, stopPending, storage>>
  /\ UNCHANGED <<cleanup, recorder, calls, tracker>>

\* resumeRecording returns {success: true} exactly when this holds, and throws
\* otherwise.
ResumeAccepted(s) == s \in activeSessions /\ sessions[s].state = "paused"

\* Mutant: resumeRecording overwrites the total instead of adding to it.
ResumeRecording_Overwrites(s) ==
  /\ IF ResumeAccepted(s)
     THEN sessions' =
            [sessions EXCEPT
               ![s].state = "recording",
               ![s].totalPauseDuration = Some(now - sessions[s].pauseTime[1])]
     ELSE UNCHANGED sessions
  /\ UNCHANGED <<now, recordingId, activeSessions, stopPending, storage>>
  /\ UNCHANGED <<cleanup, recorder, calls, tracker>>

ResumeRecording(s) ==
  /\ IF ResumeAccepted(s)
     THEN sessions' =
            [sessions EXCEPT
               ![s].state = "recording",
               ![s].totalPauseDuration =
                  Some(OrZero(sessions[s].totalPauseDuration)
                         + (now - sessions[s].pauseTime[1]))]
     ELSE UNCHANGED sessions
  /\ UNCHANGED <<now, recordingId, activeSessions, stopPending, storage>>
  /\ UNCHANGED <<cleanup, recorder, calls, tracker>>

\* Mutant: addCursorEvent does not subtract the paused time.
CursorEvent_IgnoresPauses(session) ==
  [timestamp |-> now - session.startTime,
   relativeTime |-> now - session.startTime]

\* The event addCursorEvent logs; the payload of the event (position, kind)
\* is carried along unread and is left out.
CursorEvent(session) ==
  [timestamp |-> now - session.startTime,
   relativeTime |->
     (now - session.startTime) - OrZero(session.totalPauseDuration)]

\* addCursorEvent answers {success: false} for an id that is not registered,
\* and logs the event otherwise, whatever the session's state.
AddCursorEvent(s) ==
  /\ Len(sessions[s].cursorEvents) < MaxEvents
  /\ IF s \in activeSessions
     THEN sessions' = [sessions EXCEPT
                         ![s].cursorEvents = Append(@, CursorEvent(sessions[s]))]
     ELSE UNCHANGED sessions
  /\ UNCHANGED <<now, recordingId, activeSessions, stopPending, storage>>
  /\ UNCHANGED <<cleanup, recorder, calls, tracker>>

\* stopRecording throws 'Recording session not found' unless this holds.
StopAccepted(s) == s \in activeSessions

\* stopRecording up to the wait for the answer to STOP_MEDIA_RECORDER.
StopRecording(s) ==
  /\ IF StopAccepted(s)
     THEN /\ stopPending[s] < MaxPendingStops
          /\ sessions' = [sessions EXCEPT ![s].state = "stopping",
                                          ![s].endTime = Some(now)]
          /\ stopPending' = [stopPending EXCEPT ![s] = @ + 1]
     ELSE UNCHANGED <<sessions, stopPending>>
  /\ UNCHANGED <<now, recordingId, activeSessions, storage>>
  /\ UNCHANGED <<cleanup, recorder, calls, tracker>>

\* What STOP_MEDIA_RECORDER is answered with: success and k blobs, or a failure.
StopOutcomes == {[kind |-> "ok", blobs |-> k] : k \in 0..MaxBlobs}
                  \cup {[kind |-> "error", blobs |-> 0]}

\* The session as stopMediaRecorder leaves it on a successful answer.
WithBlobs(s, outcome) ==
  [sessions[s] EXCEPT !.videoBlobs = [i \in 1..outcome.blobs |-> BlobBytes]]

\* RecordingManager.stopRecording resolves (rather than throws) on this answer.
StopResolves(s, outcome) ==
  /\ outcome.kind = "ok"
  /\ generateProjectData(storage, WithBlobs(s, outcome)).ok

\* ServiceWorker.stopRecording answers {success: true} on this answer.
StopSucceeds(s, outcome) ==
  /\ StopResolves(s, outcome)
  /\ LET g == generateProjectData(storage, WithBlobs(s, outcome))
     IN saveProject(g.st, g.project).ok

\* The session after stopRecording resumed with the answer: stopped when the
\* project data was generated, error when the answer was a failure or a blob
\* could not be stored.
SessionAfterStop(s, outcome) ==
  IF outcome.kind = "ok"
  THEN [WithBlobs(s, outcome) EXCEPT
          !.state = IF StopResolves(s, outcome) THEN "stopped" ELSE "error"]
  ELSE [sessions[s] EXCEPT !.state = "error"]

\* The store after the stop: the blobs that generateProjectData stored, and
\* the project that ServiceWorker.stopRecording saved if stopRecording resolved.
StorageAfterStop(s, outcome) ==
  IF outcome.kind = "ok"
  THEN LET g == generateProjectData(storage, WithBlobs(s, outcome))
       IN IF g.ok THEN saveProject(g.st, g.project).st ELSE g.st
  ELSE storage

\* The stores after each storeBlobData of generateProjectData's loop, from
\* index i on, up to and without the first refusal.
RECURSIVE StoreBlobWrites(_, _, _)
StoreBlobWrites(st, session, i) ==
  IF i > Len(session.videoBlobs) THEN <<>>
  ELSE LET r == StorageSet(st, BLOB_ \o BlobId(session, i - 1),
                           [kind |-> "blob", size |-> session.videoBlobs[i],
                            createdAt |-> now])
       IN IF r.ok THEN <<r.st>> \o StoreBlobWrites(r.st, session, i + 1)
          ELSE <<>>

\* The stores after each write of the stop: the blobs one by one, then the
\* project record, then the store as saveProject leaves it.
StopWrites(s, outcome) ==
  IF outcome.kind # "ok" THEN <<>>
  ELSE LET session == WithBlobs(s, outcome)
           blobWrites == StoreBlobWrites(storage, session, 1)
           s1 == IF blobWrites = <<>> THEN storage
                 ELSE blobWrites[Len(blobWrites)]
           project == ProjectOf(session)
           r == StorageSet(s1, PROJECT_ \o project.id,
                           [project EXCEPT !.savedAt = Some(now)])
           saved == saveProject(s1, project)
       IN IF Len(blobWrites) < Len(session.videoBlobs) \/ ~saved.ok
          THEN blobWrites
          ELSE blobWrites \o <<r.st, saved.st>>

\* stopRecording resumes with the answer, and ServiceWorker.stopRecording
\* saves the project it returned.
StopAnswered(s, outcome) ==
  /\ stopPending[s] > 0
  /\ stopPending' = [stopPending EXCEPT ![s] = @ - 1]
  /\ sessions' = [sessions EXCEPT ![s] = SessionAfterStop(s, outcome)]
  /\ activeSessions' =
       IF StopResolves(s, outcome) THEN activeSessions \ {s} ELSE activeSessions
  /\ storage' = StorageAfterStop(s, outcome)
  /\ UNCHANGED <<now, recordingId>>
  /\ UNCHANGED <<cleanup, recorder, calls, tracker>>

\* The answer never comes: the promise of stopMediaRecorder stays pending and
\* the call never resumes.
StopNeverAnswered(s) ==
  /\ stopPending[s] > 0
  /\ stopPending' = [stopPending EXCEPT ![s] = @ - 1]
  /\ UNCHANGED <<now, recordingId, sessions, activeSessions, storage>>
  /\ UNCHANGED <<cleanup, recorder, calls, tracker>>

\* ProjectManager.deleteProject of a stored project.
StoredProjectIds == getProjectIdsFromData(storage)

DeleteProject(pid) ==
  /\ storage' = deleteProject(storage, pid)
  /\ UNCHANGED <<now, recordingId, sessions, activeSessions, stopPending>>
  /\ UNCHANGED <<cleanup, recorder, calls, tracker>>

\* StorageManager.performMaintenance
PerformMaintenance ==
  /\ UsagePercentage(storage) > MaxStorageUsage => TotalCleanups(storage) < MaxCleanups
  /\ \E oldPick \in OldPicks(storage) :
       storage' = performMaintenance(storage, oldPick)
  /\ UNCHANGED <<now, recordingId, sessions, activeSessions, stopPending>>
  /\ UNCHANGED <<cleanup, recorder, calls, tracker>>

\* ------------------------------------- ProjectManager: load, import, copy
\* {...record, [field]: value}
With(record, field, value) == Put(record, field, value)

\* Mutant: loadProject looks the project up under its bare id.
loadProject_BareKey(st, projectId) ==
  IF projectId \notin DOMAIN st
  THEN [ok |-> FALSE, found |-> FALSE, st |-> st, project |-> Undef]
  ELSE [ok |-> TRUE, found |-> TRUE, st |-> st, project |-> Some(st[projectId])]

\* loadProject: the project is read, stamped with lastAccessed and written
\* back; 'Project not found' when there is no such record.
loadProject(st, projectId) ==
  LET key == PROJECT_ \o projectId
  IN IF key \notin DOMAIN st
     THEN [ok |-> FALSE, found |-> FALSE, st |-> st, project |-> Undef]
     ELSE LET project == With(st[key], "lastAccessed", now)
              r == StorageSet(st, key, project)
          IN [ok |-> r.ok, found |-> TRUE, st |-> r.st,
              project |-> IF r.ok THEN Some(project) ELSE Undef]

\* The keys getProjectBlobs collects: key.startsWith('blob_') &&
\* key.includes(projectId).
ProjectBlobKeys(st, projectId) ==
  {k \in DOMAIN st : StartsWith(k, BLOB_) /\ Includes(k, projectId)}

\* getProjectBlobs: the blob records by blob id.
getProjectBlobs(st, projectId) ==
  [b \in {Replace(k, BLOB_, <<>>) : k \in ProjectBlobKeys(st, projectId)} |->
     st[CHOOSE k \in ProjectBlobKeys(st, projectId) : Replace(k, BLOB_, <<>>) = b]]

\* chrome.storage.local.set of several keys at once: all or nothing.
StorageSetAll(st, entries) ==
  LET next == [k \in (DOMAIN st) \cup (DOMAIN entries) |->
                 IF k \in DOMAIN entries THEN entries[k] ELSE st[k]]
  IN IF BytesInUse(next) <= QuotaBytes
     THEN [ok |-> TRUE, st |-> next]
     ELSE [ok |-> FALSE, st |-> st]

\* duplicateProjectBlobs: the source's blobs under keys in which the source
\* id is replaced by the target id; a refused write is logged and swallowed.
duplicateProjectBlobs(st, sourceProjectId, targetProjectId) ==
  LET sourceBlobs == getProjectBlobs(st, sourceProjectId)
      NewKey(blobId) == BLOB_ \o Replace(blobId, sourceProjectId, targetProjectId)
      duplicatedBlobs ==
        [k \in {NewKey(b) : b \in DOMAIN sourceBlobs} |->
           With(sourceBlobs[CHOOSE b \in DOMAIN sourceBlobs : NewKey(b) = k],
                "createdAt", now)]
  IN IF DOMAIN sourceBlobs = {} THEN st
     ELSE StorageSetAll(st, duplicatedBlobs).st

\* `project_${Date.now()}_${Math.random().toString(36).substr(2, 9)}`
CopyId(random) == PROJECT_ \o ToStr(now) \o US \o random

\* duplicateProject
duplicateProject(st, projectId, random) ==
  LET loaded == loadProject(st, projectId)
  IN IF ~loaded.ok THEN [ok |-> FALSE, st |-> loaded.st, project |-> Undef]
     ELSE LET originalProject == loaded.project[1]
              duplicatedProject ==
                With(With(With(originalProject, "id", CopyId(random)),
                          "createdAt", now), "updatedAt", now)
              s1 == duplicateProjectBlobs(loaded.st, originalProject.id,
                                          duplicatedProject.id)
              saved == saveProject(s1, With(duplicatedProject, "savedAt", Undef))
          IN [ok |-> saved.ok,
              st |-> IF saved.ok THEN saved.st ELSE s1,
              project |-> IF saved.ok THEN Some(duplicatedProject) ELSE Undef]

\* The stores after each write of a list of [id, data] blob entries, one
\* chrome.storage.local.set per entry, up to and without the first refusal.
RECURSIVE ImportBlobWrites(_, _)
ImportBlobWrites(st, blobs) ==
  IF blobs = <<>> THEN <<>>
  ELSE LET r == StorageSet(st, BLOB_ \o Head(blobs).id, Head(blobs).data)
       IN IF r.ok THEN <<r.st>> \o ImportBlobWrites(r.st, Tail(blobs))
          ELSE <<>>

\* The store after the last of a sequence of writes on st.
LastStore(st, writes) == IF writes = <<>> THEN st ELSE writes[Len(writes)]

\* Mutant: importProject saves the project and then imports the blobs.
importProject_ProjectFirst(st, importData) ==
  LET project == importData.project
      stamped == With(project, "importedAt", now)
      r == StorageSet(st, PROJECT_ \o project.id,
                      With(stamped, "savedAt", Some(now)))
      saved == saveProject(st, With(stamped, "savedAt", Undef))
  IN IF loadProject(st, project.id).found \/ ~saved.ok
     THEN [ok |-> FALSE, writes |-> <<>>]
     ELSE [ok |-> TRUE,
           writes |-> <<r.st, saved.st>>
                        \o ImportBlobWrites(saved.st, importData.blobs)]

\* importProject(importData) with overwriteExisting = false: the stores after
\* each of its writes, and whether it resolved.  The existence check is a
\* loadProject, which stamps an existing project before the import is refused.
importProject(st, importData) ==
  LET project == importData.project
      existing == loadProject(st, project.id)
  IN IF existing.found
     THEN [ok |-> FALSE, writes |-> <<existing.st>>]
     ELSE LET blobWrites == ImportBlobWrites(st, importData.blobs)
              s1 == LastStore(st, blobWrites)
          IN IF Len(blobWrites) < Len(importData.blobs)
             THEN [ok |-> FALSE, writes |-> blobWrites]
             ELSE LET stamped == With(project, "importedAt", now)
                      r == StorageSet(s1, PROJECT_ \o project.id,
                                      With(stamped, "savedAt", Some(now)))
                      saved == saveProject(s1, With(stamped, "savedAt", Undef))
                  IN IF ~saved.ok THEN [ok |-> FALSE, writes |-> blobWrites]
                     ELSE [ok |-> TRUE,
                           writes |-> blobWrites \o <<r.st, saved.st>>]

\* What an import file can hold: a project named by ImportId with up to
\* MaxImportBlobs blobs named by the project id and the segment index, each
\* small or large and made at the beginning of time or just now.
ImportId == <<"c", "l", "i", "p">>
SmallBlobBytes == 1024 * 1024
LargeBlobBytes == 7 * 1024 * 1024

ImportBlob(i, size, at) ==
  [id |-> ImportId \o US \o ToStr(i),
   data |-> [kind |-> "blob", size |-> size, createdAt |-> at]]

\* The file lists its blobs from old to new, and small before large.
ImportRank(blob) ==
  (IF blob[2] = now THEN 2 ELSE 0) + (IF blob[1] = LargeBlobBytes THEN 1 ELSE 0)

ImportBlobLists ==
  UNION {{[i \in 1..n |-> ImportBlob(i - 1, f[i][1], f[i][2])] :
            f \in {g \in [1..n -> {SmallBlobBytes, LargeBlobBytes} \X {1, now}] :
                     \A i \in 1..(n - 1) : ImportRank(g[i]) <= ImportRank(g[i + 1])}} :
         n \in 0..MaxImportBlobs}

ImportFileOf(blobs, updatedAt) ==
  [project |->
     [kind |-> "project", id |-> ImportId, createdAt |-> 1,
      updatedAt |-> updatedAt, duration |-> 0,
      timeline |->
        [duration |-> 0, cursorEvents |-> <<>>,
         videoSegments |->
           [i \in 1..Len(blobs) |->
              [blobId |-> blobs[i].id, size |-> blobs[i].data.size]]]],
   blobs |-> blobs]

ImportFiles ==
  {ImportFileOf(blobs, updatedAt) : blobs \in ImportBlobLists, updatedAt \in {1, now}}

\* ProjectManager.importProject
ImportProject(importData) ==
  /\ importData \in ImportFiles
  /\ storage' = LastStore(storage, importProject(storage, importData).writes)
  /\ UNCHANGED <<now, recordingId, sessions, activeSessions, stopPending>>
  /\ UNCHANGED <<cleanup, recorder, calls, tracker>>

\* ----------------------------------------------- ServiceWorker.saveProject
\* The id of the k-th project the editor saves.
SAVED_ == <<"s", "a", "v", "e", "d", "_">>
SavedId(k) == SAVED_ \o ToStr(k)

\* A project as the editor hands it to SAVE_PROJECT: small, without video.
SmallProjectBytes == 1024

SavedProject(k) ==
  [kind |-> "project", id |-> SavedId(k), createdAt |-> now, updatedAt |-> now,
   duration |-> 0,
   timeline |-> [duration |-> 0, cursorEvents |-> <<>>, videoSegments |-> <<>>],
   savedAt |-> Undef, bytes |-> SmallProjectBytes]

SavedCount == Cardinality({k \in ProjectKeys(storage) : StartsWith(storage[k].id, SAVED_)})

\* A project of a given size: the size grows with the cursor events of its
\* timeline.
SizedProject(k, bytes) == With(SavedProject(k), "bytes", bytes)

\* ServiceWorker.saveProject: ProjectManager.saveProject(data.project)
SaveProject(project) ==
  /\ storage' = saveProject(storage, project).st
  /\ UNCHANGED <<now, recordingId, sessions, activeSessions, stopPending>>
  /\ UNCHANGED <<cleanup, recorder, calls, tracker>>

\* ServiceWorker.loadProject: ProjectManager.loadProject(data.projectId)
LoadProject(projectId) ==
  /\ storage' = loadProject(storage, projectId).st
  /\ UNCHANGED <<now, recordingId, sessions, activeSessions, stopPending>>
  /\ UNCHANGED <<cleanup, recorder, calls, tracker>>

\* What Math.random().toString(36).substr(2, 9) yields.
RandomSuffixes == {<<"k", "3">>, <<"z", "7">>}

\* ProjectManager.duplicateProject
DuplicateProject(projectId, random) ==
  /\ storage' = duplicateProject(storage, projectId, random).st
  /\ UNCHANGED <<now, recordingId, sessions, activeSessions, stopPending>>
  /\ UNCHANGED <<cleanup, recorder, calls, tracker>>

\* ------------------------------------- ProjectManager calls that interleave
\* A call that awaits chrome.storage gives way to the other calls: calls holds
\* what each call under way has read and where it stands.
\* saveProject up to its first await: the project record is written, unless
\* the write is refused, which ends the call.
SaveBegin(project) ==
  /\ Cardinality(calls) < MaxCalls
  /\ LET r == StorageSet(storage, PROJECT_ \o project.id,
                         [project EXCEPT !.savedAt = Some(now)])
     IN /\ storage' = r.st
        /\ calls' = IF r.ok
                    THEN calls \cup {[op |-> "save", at |-> "written",
                                      project |-> project, read |-> <<>>]}
                    ELSE calls
  /\ UNCHANGED <<now, recordingId, sessions, activeSessions, stopPending>>
  /\ UNCHANGED <<cleanup, recorder, tracker>>

\* updateRecentProjects: getStorageData('recent_projects') is answered.
SaveRead(c) ==
  /\ c \in calls
  /\ c.op = "save" /\ c.at = "written"
  /\ calls' = (calls \ {c}) \cup {[c EXCEPT !.at = "read",
                                             !.read = RecentList(storage)]}
  /\ UNCHANGED <<now, recordingId, sessions, activeSessions, stopPending>>
  /\ UNCHANGED <<storage, cleanup, recorder, tracker>>

\* updateRecentProjects writes the list it made from the list it read, and
\* saveProject ends with cleanupOldProjects.
SaveIndex(c) ==
  /\ c \in calls
  /\ c.op = "save" /\ c.at = "read"
  /\ LET asRead == Put(storage, RECENT_PROJECTS, [kind |-> "list", items |-> c.read])
         list == RecentList(updateRecentProjects(asRead, c.project))
     IN storage' = cleanupOldProjects(
                     Put(storage, RECENT_PROJECTS, [kind |-> "list", items |-> list]))
  /\ calls' = calls \ {c}
  /\ UNCHANGED <<now, recordingId, sessions, activeSessions, stopPending>>
  /\ UNCHANGED <<cleanup, recorder, tracker>>

\* loadProject: getStorageData is answered; 'Project not found' ends the call,
\* otherwise the project is stamped and setStorageData is called.
LoadRead(projectId) ==
  /\ Cardinality(calls) < MaxCalls
  /\ calls' = IF (PROJECT_ \o projectId) \in DOMAIN storage
              THEN calls \cup {[op |-> "load", at |-> "read", id |-> projectId,
                                project |-> With(storage[PROJECT_ \o projectId],
                                                 "lastAccessed", now)]}
              ELSE calls
  /\ UNCHANGED <<now, recordingId, sessions, activeSessions, stopPending>>
  /\ UNCHANGED <<storage, cleanup, recorder, tracker>>

\* loadProject: its setStorageData is carried out.
LoadWrite(c) ==
  /\ c \in calls
  /\ c.op = "load"
  /\ storage' = StorageSet(storage, PROJECT_ \o c.id, c.project).st
  /\ calls' = calls \ {c}
  /\ UNCHANGED <<now, recordingId, sessions, activeSessions, stopPending>>
  /\ UNCHANGED <<cleanup, recorder, tracker>>

\* ------------------------------------------- RecordingManager.cleanupTab
\* The keys of a set of sessions in the order the Map enumerates them: the
\* order of insertion, which is the order of the counter.
RECURSIVE InsertionOrder(_)
InsertionOrder(S) ==
  IF S = {} THEN <<>>
  ELSE LET m == CHOOSE x \in S : \A y \in S : x <= y
       IN <<m>> \o InsertionOrder(S \ {m})

\* cleanupTab's first loop: sessionsToCleanup
sessionsToCleanup(tab) ==
  InsertionOrder({s \in activeSessions : sessions[s].tabId = tab})

\* stopRecording up to its await, on the session objects ss.
BeginStop(ss, s) ==
  [ss EXCEPT ![s].state = "stopping", ![s].endTime = Some(now)]

\* The second loop passes over the ids that are no longer registered:
\* stopRecording throws 'not found' for them and the catch has nothing to
\* delete.  What is left starts with the next session to stop.
RECURSIVE SkipGone(_, _)
SkipGone(queue, registry) ==
  IF queue = <<>> THEN <<>>
  ELSE IF Head(queue) \in registry THEN queue
  ELSE SkipGone(Tail(queue), registry)

\* ServiceWorker.handleTabRemoved: cleanupTab collects the tab's sessions and
\* calls stopRecording on the first, which waits for STOP_MEDIA_RECORDER.
HandleTabRemoved(tab) ==
  /\ cleanup[tab].status = "open"
  /\ LET queue == sessionsToCleanup(tab)
     IN IF queue = <<>>
        THEN /\ cleanup' = [cleanup EXCEPT ![tab].status = "done"]
             /\ UNCHANGED sessions
        ELSE /\ cleanup' = [cleanup EXCEPT ![tab] =
                              [status |-> "running", queue |-> queue,
                               awaiting |-> TRUE]]
             /\ sessions' = BeginStop(sessions, Head(queue))
  /\ UNCHANGED <<now, recordingId, activeSessions, stopPending, storage, recorder,
               calls, tracker>>

\* Mutant: the catch of cleanupTab does not delete the session.
CleanupRegistry_NoCatchDelete(s, outcome) ==
  IF StopResolves(s, outcome) THEN activeSessions \ {s} ELSE activeSessions

\* The registry after the implicit stop of s was answered: stopRecording
\* deletes the session when it resolves, the catch of cleanupTab when it throws.
CleanupRegistry(s, outcome) == activeSessions \ {s}

\* The implicit stop resumes with the answer; cleanupTab goes on to the next
\* session, or returns.  The project that stopRecording returns is not saved.
CleanupStopAnswered(tab, outcome) ==
  /\ cleanup[tab].status = "running"
  /\ cleanup[tab].awaiting
  /\ LET s == Head(cleanup[tab].queue)
         stopped == [sessions EXCEPT ![s] = SessionAfterStop(s, outcome)]
         registry == CleanupRegistry(s, outcome)
         rest == SkipGone(Tail(cleanup[tab].queue), registry)
     IN /\ activeSessions' = registry
        /\ storage' = IF outcome.kind = "ok"
                      THEN generateProjectData(storage, WithBlobs(s, outcome)).st
                      ELSE storage
        /\ IF rest = <<>>
           THEN /\ sessions' = stopped
                /\ cleanup' = [cleanup EXCEPT ![tab] =
                                 [status |-> "done", queue |-> <<>>,
                                  awaiting |-> FALSE]]
           ELSE /\ sessions' = BeginStop(stopped, Head(rest))
                /\ cleanup' = [cleanup EXCEPT ![tab].queue = rest]
  /\ UNCHANGED <<now, recordingId, stopPending, recorder, calls, tracker>>

\* ------------------------------------------- ServiceWorker.handleMessage
\* RecordingManager.getState
getState ==
  LET registered == InsertionOrder(activeSessions)
  IN [isRecording |-> \E s \in activeSessions : sessions[s].state = "recording",
      sessions |->
        [i \in 1..Len(registered) |->
           [id |-> sessions[registered[i]].id,
            tabId |-> sessions[registered[i]].tabId,
            state |-> sessions[registered[i]].state,
            startTime |-> sessions[registered[i]].startTime,
            duration |-> now - sessions[registered[i]].startTime]]]

\* sendResponse({ success: false, error: error.message })
Failure(message) == [success |-> FALSE, error |-> message]

\* What handleMessage passes to sendResponse for a request that is answered
\* without waiting for the content script.  data is the session number, the
\* project id or the project, as the action requires.
Response(action, data) ==
  CASE action = "PAUSE_RECORDING" ->
         IF PauseAccepted(data) THEN [success |-> TRUE, state |-> "paused"]
         ELSE Failure("Invalid session state for pause")
    [] action = "RESUME_RECORDING" ->
         IF ResumeAccepted(data) THEN [success |-> TRUE, state |-> "recording"]
         ELSE Failure("Invalid session state for resume")
    [] action = "GET_RECORDING_STATE" -> getState
    [] action = "SAVE_PROJECT" ->
         IF saveProject(storage, data).ok
         THEN [success |-> TRUE, projectId |-> data.id]
         ELSE Failure("QUOTA_BYTES quota exceeded")
    [] action = "LOAD_PROJECT" ->
         LET loaded == loadProject(storage, data)
         IN IF loaded.ok THEN loaded.project[1]
            ELSE Failure("Project not found")
    [] OTHER -> Failure("Unknown action")

\* The requests of the control surface that are answered at once, with the
\* data they can carry.
Requests ==
  ({"PAUSE_RECORDING", "RESUME_RECORDING"} \X SessionIds)
    \cup {<<"GET_RECORDING_STATE", 0>>}
    \cup {<<"SAVE_PROJECT", SavedProject(1)>>}
    \cup ({"LOAD_PROJECT", "DELETE_PROJECT", "EXPORT_PROJECT"}
            \X (StoredProjectIds \cup {SavedId(1)}))

\* ------------------------------------------------------ CursorFlowRecorder
rmVars ==
  <<now, recordingId, sessions, activeSessions, stopPending, cleanup, calls,
    tracker>>

\* `recording_${Date.now()}`
RecordingId(time) == RECORDING_ \o ToStr(time)

\* A chunk is named by the MediaRecorder that produced it and its capture
\* sequence index there.
ChunkName(k, index) == ((k - 1) * MaxChunks) + index
ChunkOwner(c) == (c \div MaxChunks) + 1

\* CursorFlowRecorder.startRecording up to its first await: refused while
\* isRecording, otherwise currentSession is set and the capture is asked for.
RecorderStartCalled ==
  /\ recorder' =
       IF recorder.isRecording THEN recorder
       ELSE [recorder EXCEPT
               !.currentSession = Some([id |-> RecordingId(now), startTime |-> now]),
               !.starting = @ + 1]
  /\ UNCHANGED <<rmVars, storage>>

\* startRecording resumes: the user denied the capture ("denied"), or a
\* MediaRecorder is started in the page, isRecording is set and the chunk
\* list is emptied; reading the id of a currentSession that a stop has set
\* to null in the meantime throws, and the catch resets isRecording.
RecorderStart(outcome) ==
  /\ recorder.starting > 0
  /\ recorder' =
       IF outcome = "denied"
       THEN [recorder EXCEPT !.starting = @ - 1]
       ELSE [recorder EXCEPT !.starting = @ - 1,
                             !.isRecording = (recorder.currentSession # Undef),
                             !.recordedChunks = <<>>,
                             !.started = @ + 1,
                             !.live = @ \cup {recorder.started + 1},
                             !.captured = Append(@, 0)]
  /\ UNCHANGED <<rmVars, storage>>

\* The k-th MediaRecorder hands over its next chunk (ondataavailable), which
\* is sent as a RECORD_CHUNK message.
ChunkCaptured(k) ==
  /\ k \in recorder.live
  /\ recorder.captured[k] < MaxChunks
  /\ recorder' = [recorder EXCEPT
                    !.inFlight = @ \cup {ChunkName(k, recorder.captured[k])},
                    !.captured[k] = @ + 1]
  /\ UNCHANGED <<rmVars, storage>>

\* handleMessage RECORD_CHUNK: the chunk is pushed onto recordedChunks.
RecordChunk(c) ==
  /\ c \in recorder.inFlight
  /\ recorder' = [recorder EXCEPT !.inFlight = @ \ {c},
                                  !.recordedChunks = Append(@, c)]
  /\ UNCHANGED <<rmVars, storage>>

\* CursorFlowRecorder.stopRecording up to its two second wait:
\* notifyContentScript runs window.cursorFlowRecorder.stop() in the tab that
\* is active now.  In the recorded page ("reached") that is the MediaRecorder
\* started last; in another tab ("missed") there is none, or the script
\* cannot be run, which is logged and ignored.
RecorderStop(reach) ==
  /\ recorder.isRecording
  /\ ~recorder.stopping
  /\ recorder' = [recorder EXCEPT
                    !.stopping = TRUE,
                    !.live = IF reach = "reached" THEN @ \ {recorder.started}
                             ELSE @]
  /\ UNCHANGED <<rmVars, storage>>

\* saveRecording / saveEmptyRecording: the recording record; videoData is the
\* Blob built from recordedChunks, i.e. the chunks in the order of the list.
RecordingOf(r) ==
  [kind |-> "recording",
   id |-> r.currentSession[1].id,
   timestamp |-> r.currentSession[1].startTime,
   duration |-> now - r.currentSession[1].startTime,
   videoData |-> IF Len(r.recordedChunks) > 0 THEN Some(r.recordedChunks) ELSE Undef,
   error |-> Len(r.recordedChunks) = 0]

RecordingsList(st) ==
  IF RECORDINGS_LIST \in DOMAIN st THEN st[RECORDINGS_LIST].items ELSE <<>>

saveToStorage(st, recording) ==
  LET s1 == Put(st, RECORDING_ \o recording.id, recording)
      list == <<[id |-> recording.id, timestamp |-> recording.timestamp,
                 duration |-> recording.duration]>> \o RecordingsList(s1)
      cut == SubSeq(list, 1, IF Len(list) < RecordingsLimit THEN Len(list)
                             ELSE RecordingsLimit)
  IN Put(s1, RECORDINGS_LIST, [kind |-> "list", items |-> cut])

\* CursorFlowRecorder.deleteRecording: the record is removed and the entries
\* with its id are filtered out of recordings_list.
deleteRecording(st, id) ==
  LET s1 == StorageRemove(st, {RECORDING_ \o id})
      kept == SelectSeq(RecordingsList(s1), LAMBDA r : r.id # id)
  IN Put(s1, RECORDINGS_LIST, [kind |-> "list", items |-> kept])

\* The ids of the recording records in the store.
StoredRecordingIds ==
  {storage[k].id : k \in {key \in DOMAIN storage : storage[key].kind = "recording"}}

\* handleMessage DELETE_RECORDING
DeleteRecording(id) ==
  /\ storage' = deleteRecording(storage, id)
  /\ UNCHANGED <<rmVars, recorder>>

\* stopRecording after the wait: the recording is saved and the recorder is
\* idle again.
RecorderSave ==
  /\ recorder.stopping
  /\ storage' = saveToStorage(storage, RecordingOf(recorder))
  /\ recorder' = [recorder EXCEPT !.stopping = FALSE, !.isRecording = FALSE,
                                  !.currentSession = Undef]
  /\ UNCHANGED rmVars

\* The methods the class CursorFlowRecorder defines (the second definition
\* of startRecording replaces the first).
RecorderMethods ==
  {"constructor", "init", "bindEvents", "handleMessage", "startRecording",
   "stopRecording", "requestScreenCapture", "initializeRecording",
   "handleCursorEvent", "notifyContentScript", "saveRecording",
   "saveToStorage", "getRecordings", "downloadRecording", "deleteRecording",
   "openRecordingsTab", "saveEmptyRecording"}

\* What stopRecording returns, and handleMessage sends as the response to
\* STOP_RECORDING, once the save is done: the saved id is never null, so
\* this.openRecordingViewer(savedRecordingId) is called; calling a method the
\* object does not have throws a TypeError, which the catch turns into a
\* failure.
stopRecordingResult(r) ==
  IF ~r.isRecording
  THEN [success |-> FALSE, error |-> "Not recording"]
  ELSE IF "openRecordingViewer" \in RecorderMethods
  THEN [success |-> TRUE, sessionId |-> r.currentSession[1].id,
        recordingId |-> r.currentSession[1].id]
  ELSE [success |-> FALSE,
        error |-> "this.openRecordingViewer is not a function"]

\* The session lifecycle: every call of the recording surface, every answer
\* of the content script, and the persistence that a stop performs.
Next ==
  \/ Tick
  \/ \E tab \in Tabs : StartDeclined(tab)
  \/ \E tab \in Tabs : StartRecording(tab)
  \/ \E s \in SessionIds, o \in InitOutcomes : InitAnswered(s, o)
  \/ \E s \in SessionIds : PauseRecording(s)
  \/ \E s \in SessionIds : ResumeRecording(s)
  \/ \E s \in SessionIds : StopRecording(s)
  \/ \E s \in SessionIds, o \in StopOutcomes : StopAnswered(s, o)
  \/ \E s \in SessionIds : StopNeverAnswered(s)

Spec == Init /\ [][Next]_vars

\* The stop path: sessions are started, possibly paused, and stopped from
\* recording or paused, at one instant of the clock.
StopPathNext ==
  \/ \E tab \in Tabs : StartRecording(tab)
  \/ \E s \in SessionIds, o \in InitOutcomes : InitAnswered(s, o)
  \/ \E s \in SessionIds : PauseRecording(s)
  \/ \E s \in SessionIds :
       sessions[s].state \in {"recording", "paused"} /\ StopRecording(s)
  \/ \E s \in SessionIds : StopNeverAnswered(s)
  \/ \E s \in SessionIds, o \in StopOutcomes : StopAnswered(s, o)

\* What becomes of a pending STOP_MEDIA_RECORDER: it stays unanswered for
\* good, or the content script answers it.
StopSettles(s) ==
  \/ StopNeverAnswered(s)
  \/ \E o \in StopOutcomes : StopAnswered(s, o)

\* Fairness: an answer the content script sends is delivered, the 15 s timer of
\* initializeMediaRecorder fires, and a request does not hang in the balance
\* for ever.  Nothing obliges the user to issue a call.
FairSpec ==
  /\ Init
  /\ [][StopPathNext]_vars
  /\ WF_vars(\E s \in SessionIds, o \in InitOutcomes : InitAnswered(s, o))
  /\ \A s \in SessionIds : WF_vars(StopSettles(s))

\* Persistence: recordings are made and stopped while recording, projects are
\* deleted, the maintenance pass runs, and months go by.
StoreNext ==
  \/ TickMonth
  \/ \E tab \in Tabs : StartRecording(tab)
  \/ \E s \in SessionIds : InitAnswered(s, "ok")
  \/ \E s \in SessionIds : sessions[s].state = "recording" /\ StopRecording(s)
  \/ \E s \in SessionIds, o \in StopOutcomes : StopAnswered(s, o)
  \/ \E pid \in StoredProjectIds : DeleteProject(pid)
  \/ PerformMaintenance

StoreSpec == Init /\ [][StoreNext]_vars

\* Cursor telemetry: sessions are started, paused, resumed and stopped from
\* recording or paused while cursor events arrive and the clock advances; the
\* recordings carry no video.
CursorNext ==
  \/ Tick
  \/ \E tab \in Tabs : StartRecording(tab)
  \/ \E s \in SessionIds : InitAnswered(s, "ok")
  \/ \E s \in SessionIds : PauseRecording(s)
  \/ \E s \in SessionIds : ResumeRecording(s)
  \/ \E s \in SessionIds : AddCursorEvent(s)
  \/ \E s \in SessionIds :
       sessions[s].state \in {"recording", "paused"} /\ StopRecording(s)
  \/ \E s \in SessionIds, o \in StopOutcomes :
       o.blobs = 0 /\ StopAnswered(s, o)

CursorSpec == Init /\ [][CursorNext]_vars

\* The chunk recorder: one recording is made while the page's MediaRecorder
\* sends its chunks, which are delivered in any order.
ChunkNext ==
  \/ Tick
  \/ (recorder.started + recorder.starting) < MaxRecordings /\ RecorderStartCalled
  \/ \E o \in {"ok", "denied"} : RecorderStart(o)
  \/ \E k \in recorder.live : ChunkCaptured(k)
  \/ \E c \in recorder.inFlight : RecordChunk(c)
  \/ \E reach \in {"reached", "missed"} : RecorderStop(reach)
  \/ RecorderSave

ChunkSpec == Init /\ [][ChunkNext]_vars

\* Tab closure: sessions are started on open tabs and stopped explicitly
\* while tabs close and cleanupTab stops their sessions, at one instant of
\* the clock.
TabNext ==
  \/ \E tab \in Tabs : cleanup[tab].status = "open" /\ StartRecording(tab)
  \/ \E s \in SessionIds, o \in InitOutcomes : InitAnswered(s, o)
  \/ \E s \in SessionIds : StopRecording(s)
  \/ \E s \in SessionIds, o \in StopOutcomes : StopAnswered(s, o)
  \/ \E tab \in Tabs : HandleTabRemoved(tab)
  \/ \E tab \in Tabs, o \in StopOutcomes : CleanupStopAnswered(tab, o)

TabSpec == Init /\ [][TabNext]_vars

\* The start deadline: sessions are started and stopped while the clock runs
\* up to and past the 15 s timer of initializeMediaRecorder, which fires only
\* once its time has come; the callback of the message may run after it.
DeadlineNext ==
  \/ Tick
  \/ TickDeadline
  \/ \E tab \in Tabs : StartRecording(tab)
  \/ \E s \in SessionIds : InitAnswered(s, "ok")
  \/ \E s \in SessionIds : InitAnswered(s, "error")
  \/ \E s \in SessionIds : DeadlinePassed(s) /\ InitAnswered(s, "timeout")
  \/ \E s \in SessionIds, o \in {"ok", "error"} : LateInitReply(s, o)
  \/ \E s \in SessionIds : PauseRecording(s)
  \/ \E s \in SessionIds : StopRecording(s)
  \/ \E s \in SessionIds, o \in StopOutcomes :
       o.blobs = 0 /\ StopAnswered(s, o)

DeadlineSpec == Init /\ [][DeadlineNext]_vars

\* Eviction: projects are imported with their blobs and deleted, the
\* maintenance pass runs, and months go by.
EvictNext ==
  \/ TickMonth
  \/ \E importData \in ImportFiles : ImportProject(importData)
  \/ \E pid \in StoredProjectIds : DeleteProject(pid)
  \/ PerformMaintenance

EvictSpec == Init /\ [][EvictNext]_vars

\* The project-count ceiling: the editor saves one new project after the
\* other, up to one more than maxProjects; the clock advances between the
\* first few saves.
CeilingNext ==
  \/ SavedCount <= MaxEarlySaves /\ Tick
  \/ \E k \in 1..MaxSaved : k = SavedCount + 1 /\ SaveProject(SavedProject(k))

CeilingSpec == Init /\ [][CeilingNext]_vars

\* The number of the next project the editor creates.
NextSaved ==
  LET stored == {k \in 1..MaxListed : SavedId(k) \in StoredProjectIds}
  IN IF stored = {} THEN 1
     ELSE 1 + (CHOOSE k \in stored : \A j \in stored : j <= k)

\* The recent list: the editor saves new projects one after the other, saves
\* the first few again and deletes them.
RecentNext ==
  \/ NextSaved <= MaxListed /\ SaveProject(SavedProject(NextSaved))
  \/ \E k \in 1..MaxTouched : SaveProject(SavedProject(k))
  \/ \E k \in 1..MaxTouched :
       SavedId(k) \in StoredProjectIds /\ DeleteProject(SavedId(k))

RecentSpec == Init /\ [][RecentNext]_vars

\* Round trip: recordings with cursor events and video are stopped from
\* recording, and their projects are loaded.
LoadNext ==
  \/ Tick
  \/ \E tab \in Tabs : StartRecording(tab)
  \/ \E s \in SessionIds : InitAnswered(s, "ok")
  \/ \E s \in SessionIds : AddCursorEvent(s)
  \/ \E s \in SessionIds : sessions[s].state = "recording" /\ StopRecording(s)
  \/ \E s \in SessionIds, o \in StopOutcomes : StopAnswered(s, o)
  \/ \E pid \in StoredProjectIds : LoadProject(pid)

LoadSpec == Init /\ [][LoadNext]_vars

\* Copies: recordings are stopped from recording and their projects, and
\* the copies, are duplicated, at one instant of the clock.
CopyNext ==
  \/ \E tab \in Tabs : StartRecording(tab)
  \/ \E s \in SessionIds : InitAnswered(s, "ok")
  \/ \E s \in SessionIds : sessions[s].state = "recording" /\ StopRecording(s)
  \/ \E s \in SessionIds, o \in StopOutcomes : StopAnswered(s, o)
  \/ \E pid \in StoredProjectIds, random \in RandomSuffixes :
       DuplicateProject(pid, random)

CopySpec == Init /\ [][CopyNext]_vars

\* Writing: recordings are made and stopped while recording, project files
\* are imported and projects deleted, at one instant of the clock.
WriteNext ==
  \/ \E tab \in Tabs : StartRecording(tab)
  \/ \E s \in SessionIds : InitAnswered(s, "ok")
  \/ \E s \in SessionIds : sessions[s].state = "recording" /\ StopRecording(s)
  \/ \E s \in SessionIds, o \in StopOutcomes : StopAnswered(s, o)
  \/ \E f \in ImportFiles : ImportProject(f)
  \/ \E pid \in StoredProjectIds : DeleteProject(pid)

WriteSpec == Init /\ [][WriteNext]_vars

\* Saving: the editor saves small and large projects and deletes them, while
\* seconds and months go by.
SaveNext ==
  \/ Tick
  \/ TickMonth
  \/ \E k \in 1..MaxSizedProjects, bytes \in {SmallProjectBytes, BlobBytes} :
       SaveProject(SizedProject(k, bytes))
  \/ \E pid \in StoredProjectIds : DeleteProject(pid)

SaveSpec == Init /\ [][SaveNext]_vars

\* Starting: sessions are started, acknowledged or refused by the capture,
\* answered by the tracker, paused, resumed and stopped without video.
TrackNext ==
  \/ \E tab \in Tabs : StartRecording(tab)
  \/ \E s \in SessionIds, o \in {"ok", "error"} : InitAnswered(s, o)
  \/ \E s \in SessionIds, o \in {"ok", "error"} : TrackingAnswered(s, o)
  \/ \E s \in SessionIds : PauseRecording(s)
  \/ \E s \in SessionIds : ResumeRecording(s)
  \/ \E s \in SessionIds : StopRecording(s)
  \/ \E s \in SessionIds, o \in StopOutcomes :
       o.blobs = 0 /\ StopAnswered(s, o)

TrackSpec == Init /\ [][TrackNext]_vars

\* Interleaving: projects are saved, loaded and deleted by calls that give way
\* to each other at their awaits, at one instant of the clock.
AsyncNext ==
  \/ \E k \in 1..MaxAsyncProjects : SaveBegin(SavedProject(k))
  \/ \E c \in calls : SaveRead(c)
  \/ \E c \in calls : SaveIndex(c)
  \/ \E k \in 1..MaxAsyncProjects : LoadRead(SavedId(k))
  \/ \E c \in calls : LoadWrite(c)
  \/ \E pid \in StoredProjectIds : DeleteProject(pid)

AsyncSpec == Init /\ [][AsyncNext]_vars

\* Racing starts: START_RECORDING messages are handled while earlier ones
\* wait for the capture; chunks arrive, and the recording is stopped and saved.
RaceNext ==
  \/ (recorder.started + recorder.starting) < MaxRacingStarts /\ RecorderStartCalled
  \/ \E o \in {"ok", "denied"} : RecorderStart(o)
  \/ \E k \in recorder.live : ChunkCaptured(k)
  \/ \E c \in recorder.inFlight : RecordChunk(c)
  \/ \E reach \in {"reached", "missed"} : RecorderStop(reach)
  \/ RecorderSave

RaceSpec == Init /\ [][RaceNext]_vars

\* Recordings one after the other: a START_RECORDING is handled only when no
\* other start is under way and the clock has moved on since the last one.
SeriesNext ==
  \/ Tick
  \/ /\ recorder.starting = 0
     /\ recorder.started < MaxRacingStarts
     /\ (RECORDING_ \o RecordingId(now)) \notin DOMAIN storage
     /\ RecorderStartCalled
  \/ RecorderStart("ok")
  \/ \E k \in recorder.live : ChunkCaptured(k)
  \/ \E c \in recorder.inFlight : RecordChunk(c)
  \/ \E reach \in {"reached", "missed"} : RecorderStop(reach)
  \/ RecorderSave

SeriesSpec == Init /\ [][SeriesNext]_vars

\* Many recordings: the clock moves on between recordings, each recording is
\* started, stopped in its page and saved without chunks, and stored
\* recordings are deleted.
ListTick ==
  /\ now < MaxListedRecordings
  /\ recorder.starting = 0
  /\ ~recorder.isRecording
  /\ now' = now + 1
  /\ UNCHANGED <<recordingId, sessions, activeSessions, stopPending, storage>>
  /\ UNCHANGED <<cleanup, recorder, calls, tracker>>

ListNext ==
  \/ ListTick
  \/ /\ recorder.starting = 0
     /\ recorder.started < MaxListedRecordings
     /\ (RECORDING_ \o RecordingId(now)) \notin DOMAIN storage
     /\ RecorderStartCalled
  \/ RecorderStart("ok")
  \/ RecorderStop("reached")
  \/ RecorderSave
  \/ \E id \in StoredRecordingIds : DeleteRecording(id)

ListSpec == Init /\ [][ListNext]_vars

\* ----------------------------------------- CursorTracker (content script)
trVars ==
  <<now, recordingId, sessions, activeSessions, stopPending, storage, cleanup,
    recorder, calls>>

\* this.handleX.bind(this): every call makes a new function.
Bind(t) == t.bound + 1

\* addEventListeners: a newly bound function is registered for each kind of
\* event.
addEventListeners(t) ==
  [t EXCEPT !.listeners = @ \cup {Bind(t)}, !.bound = Bind(t)]

\* removeEventListeners: removeEventListener is called with another newly
\* bound function; the document drops the listener that is this very
\* function, if it has one.
removeEventListeners(t) ==
  [t EXCEPT !.listeners = @ \ {Bind(t)}, !.bound = Bind(t)]

\* startCursorTracking
startCursorTracking(t, sessionId) ==
  IF t.isTracking THEN t
  ELSE addEventListeners([t EXCEPT !.isTracking = TRUE,
                                   !.sessionId = Some(sessionId)])

\* stopCursorTracking
stopCursorTracking(t) ==
  IF ~t.isTracking THEN t
  ELSE removeEventListeners([t EXCEPT !.isTracking = FALSE])

\* shouldRecordEvent: throttleDelay, 16 ms, is less than one step of the
\* clock, so an event is held back exactly when the clock has not moved since
\* lastEventTime.
shouldRecordEvent(t) == now # t.lastEventTime

\* sendCursorEvent: the number of messages one call sends.
sendCursorEvent(t) == IF t.isTracking /\ t.sessionId # Undef THEN 1 ELSE 0

\* The kinds of input event: mousemove and scroll are throttled by
\* shouldRecordEvent, the others are not.
EventKinds == {"mousemove", "mousedown"}

\* The document dispatches one input event to every registered listener in
\* turn.  handleMouseDown sends for each of them; in handleMouseMove the
\* first listener that runs takes the throttle slot and the others return.
dispatch(t, kind) ==
  LET n == Cardinality(t.listeners)
  IN IF kind = "mousedown"
     THEN [t EXCEPT !.sent = n * sendCursorEvent(t)]
     ELSE IF n > 0 /\ shouldRecordEvent(t)
          THEN [t EXCEPT !.sent = sendCursorEvent(t), !.lastEventTime = now]
          ELSE [t EXCEPT !.sent = 0]

\* handleMessage START_CURSOR_TRACKING
TrackerStart(sessionId) ==
  /\ tracker' = startCursorTracking(tracker, sessionId)
  /\ UNCHANGED trVars

\* handleMessage STOP_CURSOR_TRACKING
TrackerStop ==
  /\ tracker' = stopCursorTracking(tracker)
  /\ UNCHANGED trVars

\* handleMessage PAUSE_RECORDING
TrackerPause ==
  /\ tracker' = [tracker EXCEPT !.isTracking = FALSE]
  /\ UNCHANGED trVars

\* handleMessage RESUME_RECORDING
TrackerResume ==
  /\ tracker' = [tracker EXCEPT !.isTracking = TRUE]
  /\ UNCHANGED trVars

\* The user moves the mouse or presses a button in the page.
DomEvent(kind) ==
  /\ tracker' = dispatch(tracker, kind)
  /\ UNCHANGED trVars

ListenNext ==
  \/ Tick
  \/ \E s \in SessionIds : tracker.bound < MaxBinds /\ TrackerStart(s)
  \/ tracker.bound < MaxBinds /\ TrackerStop
  \/ TrackerPause
  \/ TrackerResume
  \/ \E kind \in EventKinds : DomEvent(kind)

ListenSpec == Init /\ [][ListenNext]_vars

\* ------------------------------------------------------------------ claims
State(s) == sessions[s].state
Registered(s) == s \in activeSessions

\* The state the machine of section 4.1 is in after a legal call.
Predicted(call) ==
  CASE call = "start" -> "recording"
    [] call = "pause" -> "paused"
    [] call = "resume" -> "recording"
    [] call = "stopping" -> "stopping"
    [] call = "stop" -> "stopped"

C2_PauseContract ==
  [][\A s \in SessionIds :
       PauseRecording(s) =>
         /\ PauseAccepted(s) => (Registered(s) /\ State(s) = "recording")
         /\ PauseAccepted(s) =>
              /\ State(s)' = "paused"
              /\ sessions'[s].pauseTime = Some(now)
         /\ ~(Registered(s) /\ State(s) = "recording") =>
              /\ sessions' = sessions
              /\ activeSessions' = activeSessions
  ]_vars

C2_Witness ==
  \E s \in SessionIds :
    /\ State(s) = "paused"
    /\ sessions[s].pauseTime = Some(now)
    /\ Registered(s)

\* C3: resumeRecording succeeds only for a registered session in state paused,
\* then sets the state to recording and adds (now - pause time) to the total
\* paused duration; otherwise the state and the total are unchanged.
C3_ResumeContract ==
  [][\A s \in SessionIds :
       ResumeRecording(s) =>
         /\ ResumeAccepted(s) => (Registered(s) /\ State(s) = "paused")
         /\ ResumeAccepted(s) =>
              /\ State(s)' = "recording"
              /\ sessions'[s].totalPauseDuration =
                   Some(OrZero(sessions[s].totalPauseDuration)
                          + (now - sessions[s].pauseTime[1]))
         /\ ~(Registered(s) /\ State(s) = "paused") =>
              /\ State(s)' = State(s)
              /\ sessions'[s].totalPauseDuration = sessions[s].totalPauseDuration
  ]_vars

\* A session resumed after a pause that lasted.
C3_Witness ==
  \E s \in SessionIds :
    /\ State(s) = "recording"
    /\ sessions[s].totalPauseDuration # Undef
    /\ OrZero(sessions[s].totalPauseDuration) > 0

\* C4: stopRecording on a session in state starting, stopping or error fails
\* and leaves the session's state and end time unchanged.
C4_StopRejectedOutsideRecordingPaused ==
  [][\A s \in SessionIds :
       (StopRecording(s) /\ Registered(s)
          /\ State(s) \in {"starting", "stopping", "error"})
         => /\ ~StopAccepted(s)
            /\ State(s)' = State(s)
            /\ sessions'[s].endTime = sessions[s].endTime
  ]_vars

Rejected(s) == sessions[s].startCall = "rejected"

\* C5: after a failed startRecording the registry holds no entry for the
\* rejected session, and a later startRecording for the same tab that the
\* content script acknowledges succeeds: it resolves with the session in state
\* recording.
C5_FailedStartRollsBack ==
  [][/\ \A s \in SessionIds : Rejected(s)' => s \notin activeSessions'
     /\ \A s \in SessionIds :
          (/\ InitAnswered(s, "ok")
           /\ \E r \in SessionIds : Rejected(r) /\ sessions[r].tabId = sessions[s].tabId)
            => /\ sessions'[s].startCall = "resolved"
               /\ State(s)' = "recording"
  ]_vars

\* A start failed, and a later start on the same tab is recording.
C5_Witness ==
  \E r, s \in SessionIds :
    /\ r < s
    /\ Rejected(r) /\ ~Registered(r)
    /\ sessions[s].tabId = sessions[r].tabId
    /\ sessions[s].startCall = "resolved"
    /\ Registered(s) /\ State(s) = "recording"

\* C6: at most one session per tab is in the registry.
C6_OneSessionPerTab ==
  \A s1, s2 \in activeSessions :
    s1 # s2 => sessions[s1].tabId # sessions[s2].tabId

\* C7: a session whose state is terminal (stopped, error, or whose start
\* failed) is not in the registry.
C7_TerminalNotRegistered ==
  \A s \in SessionIds :
    (State(s) \in {"stopped", "error"} \/ Rejected(s)) => ~Registered(s)

\* C8: every session on which stopRecording is called eventually reaches a
\* terminal state, whatever the content script does with STOP_MEDIA_RECORDER.
C8_StopReachesTerminal ==
  \A s \in SessionIds :
    (State(s) = "stopping") ~> (State(s) \in {"stopped", "error"})

ProjectKeyOf(s) == PROJECT_ \o PROJECT_ \o sessions[s].id

\* C9: a stop whose answer carries no video blob, or is a failure, still
\* succeeds and persists a project with no video segment and an explicit
\* no-video-data flag.
C9_StopWithoutVideoSucceeds ==
  [][\A s \in SessionIds : \A o \in StopOutcomes :
       (StopAnswered(s, o) /\ (o.kind = "error" \/ o.blobs = 0))
         => /\ StopSucceeds(s, o)
            /\ ProjectKeyOf(s) \in DOMAIN storage'
            /\ storage'[ProjectKeyOf(s)].timeline.videoSegments = <<>>
            /\ "noVideoData" \in DOMAIN storage'[ProjectKeyOf(s)]
  ]_vars

\* C10: every blobId in the timeline of every stored project has its
\* blob_<blobId> record in storage.
C10_ReferentialIntegrity ==
  \A k \in ProjectKeys(storage) :
    \A i \in DOMAIN storage[k].timeline.videoSegments :
      (BLOB_ \o storage[k].timeline.videoSegments[i].blobId) \in DOMAIN storage

\* The storage keys of the blobs that the timeline of a project names.
BlobsOfProject(st, key) ==
  {BLOB_ \o st[key].timeline.videoSegments[i].blobId :
     i \in DOMAIN st[key].timeline.videoSegments}

\* C11: when deleteProject completes for a recorded project, storage holds
\* none of the blob records that the project's timeline referenced.
C11_DeleteRemovesProjectBlobs ==
  [][\A pid \in StoredProjectIds :
       DeleteProject(pid) =>
         BlobsOfProject(storage, PROJECT_ \o pid) \cap DOMAIN storage' = {}
  ]_vars

ReferencedBlobs(st) == UNION {BlobsOfProject(st, k) : k \in ProjectKeys(st)}

\* C12: the blobs cleanupStorage classifies and removes as orphaned are
\* exactly the blob records that no stored project's timeline references.
C12_OrphansAreTheUnreferenced ==
  [][(PerformMaintenance /\ UsagePercentage(storage) > MaxStorageUsage)
       => /\ OrphanedBlobs(storage) = BlobKeys(storage) \ ReferencedBlobs(storage)
          /\ (BlobKeys(storage) \ DOMAIN storage') \cap ReferencedBlobs(storage) = {}
  ]_vars

Events(s) == sessions[s].cursorEvents

\* C13: in every session the relativeTime values of the logged cursor events
\* are non-decreasing in arrival order, whatever the interleaving of
\* addCursorEvent with pauseRecording and resumeRecording.
C13_RelativeTimeMonotone ==
  \A s \in SessionIds :
    \A i \in 1..(Len(Events(s)) - 1) :
      Events(s)[i].relativeTime <= Events(s)[i + 1].relativeTime

\* C14: an event that arrives while the session is recording gets relativeTime
\* = (arrival - start) - (sum of the pauses completed so far).  The sum is
\* followed step by step: the start time never changes, a pause begins at the
\* time of the call and its begin is kept while the session is paused, and the
\* total changes only when a pause ends, by exactly the length of that pause.
C14_RelativeTimeSubtractsPauses ==
  [][\A s \in SessionIds :
       /\ (AddCursorEvent(s) /\ Registered(s) /\ State(s) = "recording")
            => /\ Len(Events(s)') = Len(Events(s)) + 1
               /\ Events(s)'[Len(Events(s)')].relativeTime =
                    (now - sessions[s].startTime)
                      - OrZero(sessions[s].totalPauseDuration)
       /\ State(s) # "none" => sessions'[s].startTime = sessions[s].startTime
       /\ (State(s) # "paused" /\ State(s)' = "paused")
            => sessions'[s].pauseTime = Some(now)
       /\ (State(s) = "paused" /\ State(s)' = "paused")
            => sessions'[s].pauseTime = sessions[s].pauseTime
       /\ sessions'[s].totalPauseDuration # sessions[s].totalPauseDuration
            => /\ State(s) = "paused" /\ State(s)' = "recording"
               /\ OrZero(sessions'[s].totalPauseDuration) =
                    OrZero(sessions[s].totalPauseDuration)
                      + (now - sessions[s].pauseTime[1])
  ]_vars

\* An event logged while recording after a pause that lasted: its relative
\* time is its raw elapsed time minus the pause.
C14_Witness ==
  \E s \in SessionIds :
    /\ State(s) = "recording"
    /\ OrZero(sessions[s].totalPauseDuration) > 0
    /\ Len(Events(s)) > 0
    /\ LET e == Events(s)[Len(Events(s))]
       IN /\ e.timestamp = now - sessions[s].startTime
          /\ e.relativeTime = e.timestamp - OrZero(sessions[s].totalPauseDuration)

\* C15: an event that arrives while the session is stopping, or after it
\* ended, is dropped: it is not added to the session's cursor events, from
\* which the project's timeline is built.
C15_NoEventAfterSeal ==
  [][\A s \in SessionIds :
       (AddCursorEvent(s) /\ State(s) \in {"stopping", "stopped", "error"})
         => Events(s)' = Events(s)
  ]_vars

\* C16: the chunks concatenated into a saved recording are in the order of
\* their capture sequence index, whatever the order in which they arrived.
C16_ChunksSealedInSequenceOrder ==
  \A k \in DOMAIN storage :
    (storage[k].kind = "recording" /\ storage[k].videoData # Undef)
      => LET video == storage[k].videoData[1]
         IN \A i \in 1..(Len(video) - 1) : video[i] < video[i + 1]

\* The time the session has spent paused when stopRecording is called: the
\* completed pauses, and the running one if it is stopped from paused.
PausedUntilNow(s) ==
  OrZero(sessions[s].totalPauseDuration)
    + (IF State(s) = "paused" THEN now - sessions[s].pauseTime[1] ELSE 0)

\* C17: for a session stopped from recording or from paused, the duration
\* that stopRecording returns and that the project carries (duration and
\* timeline.duration) is (end - start) minus the time spent paused.
C17_DurationExcludesPauses ==
  [][\A s \in SessionIds :
       (StopRecording(s) /\ Registered(s) /\ State(s) \in {"recording", "paused"})
         => LET d == (now - sessions[s].startTime) - PausedUntilNow(s)
            IN /\ Duration(sessions'[s]) = d
               /\ ProjectOf(sessions'[s]).duration = d
               /\ ProjectOf(sessions'[s]).timeline.duration = d
  ]_vars

\* C18: a stop issued while startRecording is pending is held back until the
\* start resolves (the session stays starting), and the completion of the
\* start never sets recording on a session that is stopping, stopped or no
\* longer registered.
C18_StopWaitsForStart ==
  [][\A s \in SessionIds :
       /\ (StopRecording(s) /\ Registered(s) /\ sessions[s].startCall = "pending")
            => State(s)' = "starting"
       /\ (InitAnswered(s, "ok")
             /\ (State(s) \in {"stopping", "stopped"} \/ ~Registered(s)))
            => State(s)' # "recording"
  ]_vars

\* The implicit stop of cleanupTab on session s awaits its answer.
ImplicitStopPending(s) ==
  \E tab \in Tabs :
    /\ cleanup[tab].status = "running"
    /\ cleanup[tab].awaiting
    /\ Head(cleanup[tab].queue) = s

\* C19: while one stop of a session is under way a second stop of the same
\* session fails and changes nothing: the implicit stop of a tab closure is
\* not begun on a session whose explicit stop is pending, and an explicit
\* stop on a session whose implicit stop is pending is refused.
C19_SecondStopRejected ==
  [][\A s \in SessionIds :
       /\ stopPending[s] > 0
            => ~(~ImplicitStopPending(s) /\ ImplicitStopPending(s)')
       /\ (StopRecording(s) /\ ImplicitStopPending(s))
            => /\ ~StopAccepted(s)
               /\ sessions'[s] = sessions[s]
               /\ stopPending' = stopPending
  ]_vars

\* C20: once cleanupTab has returned for a tab, the registry holds no session
\* of that tab, whatever the answers to the implicit stops were.
C20_CleanupEmptiesTab ==
  \A tab \in Tabs :
    cleanup[tab].status = "done"
      => \A s \in activeSessions : sessions[s].tabId # tab

\* cleanupTab returned for a tab one of whose sessions failed to stop.
C20_Witness ==
  \E tab \in Tabs, s \in SessionIds :
    /\ cleanup[tab].status = "done"
    /\ sessions[s].tabId = tab
    /\ State(s) = "error"
    /\ ~Registered(s)

TimedOut(s) == Rejected(s) /\ sessions[s].initReply \in {"awaited", "late"}

\* C21: when the 15 s timer of initializeMediaRecorder fires before the
\* acknowledgement, startRecording fails and the session leaves the registry;
\* the acknowledgement that arrives afterwards changes neither the session's
\* state nor the registry, and a timed-out session is never registered and
\* never recording.
C21_TimeoutRollsBackForGood ==
  [][\A s \in SessionIds :
       /\ InitAnswered(s, "timeout")
            => /\ sessions'[s].startCall = "rejected"
               /\ s \notin activeSessions'
       /\ \A o \in {"ok", "error"} :
            LateInitReply(s, o)
              => /\ State(s)' = State(s)
                 /\ activeSessions' = activeSessions
       /\ TimedOut(s)' => (~Registered(s)' /\ State(s)' # "recording")
  ]_vars

\* A start timed out 15 s after it began, and its acknowledgement came late.
C21_Witness ==
  \E s \in SessionIds :
    /\ Rejected(s) /\ sessions[s].initReply = "late"
    /\ DeadlinePassed(s)
    /\ ~Registered(s) /\ State(s) = "starting"

\* What eviction deletes from: the project records and the blob records.
Kept(st) == ProjectKeys(st) \cup BlobKeys(st)

\* C22: a second eviction run right after a first one deletes no project and
\* no blob: cleanupStorage applied to the store that a cleanupStorage run
\* left, and cleanupOldProjects applied to what cleanupOldProjects left, keep
\* every project and blob record, also when usage is still over the threshold.
C22_EvictionIdempotent ==
  [][(PerformMaintenance /\ UsagePercentage(storage) > MaxStorageUsage)
       => /\ \A oldPick \in OldPicks(storage') :
               Kept(cleanupStorage(storage', oldPick)) = Kept(storage')
          /\ Kept(cleanupOldProjects(cleanupOldProjects(storage)))
               = Kept(cleanupOldProjects(storage))
  ]_vars

\* The store saveProject has written the project and the recent list to,
\* before its cleanup, on the stop of s answered with o.
BeforeCleanup(s, o) ==
  LET g == generateProjectData(storage, WithBlobs(s, o))
      r == StorageSet(g.st, PROJECT_ \o g.project.id,
                      [g.project EXCEPT !.savedAt = Some(now)])
  IN updateRecentProjects(r.st, g.project)

\* C23: with usage at or below 80% of the quota an eviction pass deletes no
\* project and no blob: neither performMaintenance nor the cleanup that
\* saveProject runs after it has written the project.
C23_NoEvictionUnderThreshold ==
  [][/\ (PerformMaintenance /\ UsagePercentage(storage) <= MaxStorageUsage)
          => Kept(storage') = Kept(storage)
     /\ \A s \in SessionIds : \A o \in StopOutcomes :
          (StopAnswered(s, o) /\ StopSucceeds(s, o)
             /\ UsagePercentage(BeforeCleanup(s, o)) <= MaxStorageUsage)
            => /\ storage' = cleanupOldProjects(BeforeCleanup(s, o))
               /\ Kept(storage') = Kept(BeforeCleanup(s, o))
  ]_vars

\* The store saveProject has written project and the recent list to, before
\* its cleanup.
BeforeCleanupOf(project) ==
  updateRecentProjects(
    StorageSet(storage, PROJECT_ \o project.id,
               [project EXCEPT !.savedAt = Some(now)]).st, project)

\* C24: when the store holds more than maxProjects projects, cleanupOldProjects
\* leaves exactly maxProjects of them, and every project it leaves was updated
\* no earlier than any project it deleted.
C24_CeilingKeepsMostRecent ==
  [][\A k \in 1..MaxSaved :
       (k = SavedCount + 1 /\ SaveProject(SavedProject(k))
          /\ Cardinality(ProjectKeys(BeforeCleanupOf(SavedProject(k)))) > MaxProjects)
         => LET before == BeforeCleanupOf(SavedProject(k))
                deleted == ProjectKeys(before) \ ProjectKeys(storage')
            IN /\ Cardinality(ProjectKeys(storage')) = MaxProjects
               /\ \A d \in deleted : \A r \in ProjectKeys(storage') :
                    before[d].updatedAt <= before[r].updatedAt
  ]_vars

\* The project ids of recent_projects, in the order of the list.
RecentIds(st) == [i \in 1..Len(RecentList(st)) |-> RecentList(st)[i].id]

\* The elements of a occur in b, each after the one before it.
InOrderOf(a, b) ==
  /\ \A i \in 1..Len(a) : \E m \in 1..Len(b) : b[m] = a[i]
  /\ \A i \in 1..(Len(a) - 1) :
       (CHOOSE m \in 1..Len(b) : b[m] = a[i])
         < (CHOOSE n \in 1..Len(b) : b[n] = a[i + 1])

\* C25: recent_projects never has more than 20 entries nor two entries with
\* the same id, and it is ordered most recently saved first: a save puts the
\* saved project first and leaves the other entries in the order they had, a
\* deletion leaves the remaining entries in the order they had.
C25_RecentListBoundedOrdered ==
  [][LET old == RecentIds(storage)
         new == RecentIds(storage')
     IN /\ Len(new) <= RecentLimit
        /\ \A i, j \in 1..Len(new) : i # j => new[i] # new[j]
        /\ \A k \in {NextSaved} \cup (1..MaxTouched) :
             SaveProject(SavedProject(k))
               => /\ new # <<>>
                  /\ new[1] = SavedId(k)
                  /\ InOrderOf(Tail(new), old)
                  /\ \A i \in 1..Len(old) :
                       (i < RecentLimit /\ old[i] # SavedId(k))
                         => \E j \in 2..Len(new) : new[j] = old[i]
        /\ \A k \in 1..MaxTouched :
             DeleteProject(SavedId(k))
               => /\ InOrderOf(new, old)
                  /\ \A i \in 1..Len(new) : new[i] # SavedId(k)
  ]_vars

\* The list is full, more projects are stored than it holds, and the project
\* saved first is at its head, having been saved again.
C25_Witness ==
  /\ Len(RecentIds(storage)) = RecentLimit
  /\ SavedCount > RecentLimit
  /\ RecentIds(storage)[1] = SavedId(1)

\* C26: every request of the control surface is answered with a response that
\* carries a success flag, and a failed response carries the flag and an
\* error string and nothing else.
C26_ResponsesCarrySuccessFlag ==
  \A request \in Requests :
    LET response == Response(request[1], request[2])
    IN /\ "success" \in DOMAIN response
       /\ ~response.success => DOMAIN response = {"success", "error"}

\* C27: when a stop has persisted its project, loadProject of the project's
\* id on the store the stop left finds the project, with as many cursor
\* events, as many video segments and the same duration in its timeline as
\* the project data produced at the stop.
C27_StopThenLoadRoundTrip ==
  [][\A s \in SessionIds : \A o \in StopOutcomes :
       (StopAnswered(s, o) /\ StopSucceeds(s, o))
         => LET produced == generateProjectData(storage, WithBlobs(s, o)).project
                loaded == loadProject(storage', produced.id)
            IN /\ loaded.ok
               /\ Len(loaded.project[1].timeline.cursorEvents)
                    = Len(produced.timeline.cursorEvents)
               /\ Len(loaded.project[1].timeline.videoSegments)
                    = Len(produced.timeline.videoSegments)
               /\ loaded.project[1].timeline.duration = produced.timeline.duration
  ]_vars

\* A stored project with cursor events and video that has been loaded.
C27_Witness ==
  \E k \in ProjectKeys(storage) :
    /\ "lastAccessed" \in DOMAIN storage[k]
    /\ Len(storage[k].timeline.cursorEvents) > 0
    /\ Len(storage[k].timeline.videoSegments) > 0
    /\ storage[k].timeline.duration > 0

\* C28: after duplicateProject succeeded for a recorded project,
\* getProjectBlobs of the copy's id returns one blob record per video segment
\* of the copy, under the keys of the original's blobs with the original's id
\* replaced by the copy's.
C28_CopyOwnsItsBlobs ==
  [][\A pid \in StoredProjectIds : \A random \in RandomSuffixes :
       (DuplicateProject(pid, random)
          /\ StartsWith(pid, PROJECT_ \o SESSION_)
          /\ duplicateProject(storage, pid, random).ok)
         => LET copy == duplicateProject(storage, pid, random).project[1]
                blobs == getProjectBlobs(storage', copy.id)
            IN /\ Cardinality(DOMAIN blobs) = Len(copy.timeline.videoSegments)
               /\ {BLOB_ \o b : b \in DOMAIN blobs}
                    = {Replace(k, pid, copy.id) :
                         k \in ProjectBlobKeys(storage, pid)}
  ]_vars

\* C29: in CursorFlowRecorder, a STOP_RECORDING received while recording
\* persists the recording, opens it in the viewer and answers success with the
\* saved recordingId; afterwards isRecording is false and currentSession is
\* null.
C29_StopPersistsOpensAnswers ==
  [][RecorderSave =>
       LET id == recorder.currentSession[1].id
           answer == stopRecordingResult(recorder)
       IN /\ (RECORDING_ \o id) \in DOMAIN storage'
          /\ answer.success
          /\ answer.recordingId = id
          /\ ~recorder'.isRecording
          /\ recorder'.currentSession = Undef
  ]_vars

\* In a sequence of stores, the project record under key is never there
\* without every blob record its timeline references.
BlobsFirst(writes, key) ==
  \A m \in 1..Len(writes) :
    key \in DOMAIN writes[m]
      => BlobsOfProject(writes[m], key) \subseteq DOMAIN writes[m]

Written(st) == {id \in getProjectIdsFromData(st) : (PROJECT_ \o id) \in DOMAIN st}

\* C31: during saveProject the project record is written before the recent
\* list is updated: after none of its writes does the recent list hold the id
\* of a project whose record is not written, the write of the record leaves
\* the list as it was, and a refused write of the record leaves the whole
\* store as it was.
C31_RecordBeforeIndex ==
  [][\A k \in 1..MaxSizedProjects : \A bytes \in {SmallProjectBytes, BlobBytes} :
       SaveProject(SizedProject(k, bytes))
         => LET project == SizedProject(k, bytes)
                writes == saveProjectWrites(storage, project)
            IN /\ storage' = LastStore(storage, writes)
               /\ \A m \in 1..Len(writes) :
                    \A i \in 1..Len(RecentList(writes[m])) :
                      RecentList(writes[m])[i].id \in Written(writes[m])
               /\ writes # <<>> =>
                    /\ project.id \in Written(writes[1])
                    /\ RecentList(writes[1]) = RecentList(storage)
                    /\ RecentList(writes[2])[1].id = project.id
               /\ ~saveProject(storage, project).ok => storage' = storage
  ]_vars

\* Three large projects do not fit: the third was refused, and the recent
\* list holds the two that are stored.
C31_Witness ==
  /\ Cardinality(ProjectKeys(storage)) = 2
  /\ Len(RecentList(storage)) = 2
  /\ BytesInUse(storage) + BlobBytes > QuotaBytes

\* C32: a session enters state recording only after both INIT_MEDIA_RECORDER
\* and START_CURSOR_TRACKING have been acknowledged with success; if the
\* tracker answers with a failure, the start fails and the session is removed
\* from the registry.
C32_RecordingNeedsBothAcks ==
  [][\A s \in SessionIds :
       /\ (sessions[s].state = "starting" /\ sessions'[s].state = "recording")
            => (sessions'[s].initReply = "handled"
                  /\ sessions'[s].trackReply = "ok")
       /\ TrackingAnswered(s, "error")
            => (sessions'[s].startCall = "rejected" /\ s \notin activeSessions')
  ]_vars

\* C33: when a tab is closed during an active session and the implicit stop
\* succeeds, a project record for that session is persisted, so that the blob
\* records written by that stop are referenced by a project.
C33_ImplicitStopPersistsProject ==
  [][\A tab \in Tabs : \A o \in StopOutcomes :
       (/\ o.blobs > 0
        /\ CleanupStopAnswered(tab, o)
        /\ StopResolves(Head(cleanup[tab].queue), o))
         => LET s == Head(cleanup[tab].queue)
            IN /\ ProjectKeyOf(s) \in DOMAIN storage'
               /\ (BlobKeys(storage') \ BlobKeys(storage))
                    \subseteq BlobsOfProject(storage', ProjectKeyOf(s))
  ]_vars

\* C36: when importProject returns successfully, the project record exists
\* in storage and a following loadProject succeeds, whatever the project's
\* updatedAt and createdAt, timestamps more than 30 days old included.
C36_SavedProjectCanBeLoaded ==
  [][\A f \in ImportFiles :
       (/\ (PROJECT_ \o f.project.id) \notin DOMAIN storage
        /\ ImportProject(f)
        /\ importProject(storage, f).ok)
         => /\ (PROJECT_ \o f.project.id) \in DOMAIN storage'
            /\ loadProject(storage', f.project.id).ok
  ]_vars

\* C34: once deleteProject(id) has completed, the project record stays absent
\* until saveProject is called for that id again: a loadProject that runs
\* concurrently with the delete never writes the project record back.
C34_LoadNeverRestoresDeleted ==
  [][\A c \in calls :
       (c.op = "load" /\ LoadWrite(c))
         => ((PROJECT_ \o c.id) \in DOMAIN storage'
               => (PROJECT_ \o c.id) \in DOMAIN storage)
  ]_vars

\* The ids of the recent list.
RecentIdSet(st) == {RecentList(st)[i].id : i \in 1..Len(RecentList(st))}

\* C35: when two saveProject calls for different projects run concurrently
\* and both complete (with fewer than 20 projects in total), recent_projects
\* contains the ids of both: the index update of one call does not drop the
\* id that the other call has put there.
C35_NoLostIndexUpdate ==
  [][\A c \in calls :
       (c.op = "save" /\ c.at = "read" /\ SaveIndex(c))
         => \A id \in RecentIdSet(storage) :
              id \in Written(storage') => id \in RecentIdSet(storage')
  ]_vars

\* C37: of two START_RECORDING requests whose handling interleaves, at most
\* one succeeds and starts a capture; the other is refused and does not
\* replace currentSession or reset the chunk list.
C37_OneStartWins ==
  [][/\ (recorder.starting > 0 /\ RecorderStartCalled)
          => recorder' = recorder
     /\ (recorder.isRecording /\ RecorderStart("ok"))
          => /\ recorder'.started = recorder.started
             /\ recorder'.recordedChunks = recorder.recordedChunks
  ]_vars

\* C38: a chunk delivered by RECORD_CHUNK ends up only in the recording of
\* the session whose capture produced it: every chunk of a saved recording
\* comes from the MediaRecorder started for that recording's session.
C38_ChunksStayInTheirSession ==
  [][RecorderSave
       => \A i \in 1..Len(recorder.recordedChunks) :
            ChunkOwner(recorder.recordedChunks[i]) = recorder.started
  ]_vars

\* The ids of recordings_list.
ListedRecordingIds(st) ==
  {RecordingsList(st)[i].id : i \in 1..Len(RecordingsList(st))}

\* C39: every recording record in the store has an entry in recordings_list,
\* and recordings_list never holds more than 10 entries.
C39_StoredRecordingsAreListed ==
  /\ StoredRecordingIds \subseteq ListedRecordingIds(storage)
  /\ Len(RecordingsList(storage)) <= RecordingsLimit

\* C40: while tracking is off no input event sends a CURSOR_EVENT, while it
\* is on every input event that is not throttled sends exactly one, and a
\* stop leaves no listener registered in the page.
C40_OneMessagePerEvent ==
  [][/\ \A kind \in EventKinds :
          (~tracker.isTracking /\ DomEvent(kind)) => tracker'.sent = 0
     /\ (tracker.isTracking /\ tracker.sessionId # Undef
           /\ DomEvent("mousedown")) => tracker'.sent = 1
     /\ (tracker.isTracking /\ TrackerStop) => tracker'.listeners = {}
  ]_vars

====
